---------------------------- MODULE Spec2Model ----------------------------
(***************************************************************************)
(* A model of the classification and verification core of                  *)
(* universal_controller:                                                   *)
(*   - PatternVerifier   (src/src/llm/state-machine.js)                    *)
(*   - PassiveDetector   (src/src/core/passive-detector.js)                *)
(*   - DOMLocalityHash   (src/src/core/dom-locality-hash.js)               *)
(*   - UniversalController and its ValueScanner                            *)
(*       (src/src/detection/universal-controller.js,                       *)
(*        src/src/core/value-scanner.js)                                   *)
(*   - bind(), _probeInput(), chatSend and the panel's Verify button       *)
(*       (src/src/actions/chat-api.js, src/src/actions/text-input.js,      *)
(*        src/unnamed/part_002)                                            *)
(* Each component has its own specifications (VerifierSpec, PanelSpec;     *)
(* PassiveSpec, LifecycleSpec, QueueSpec, TimedSpec; LshSpec,              *)
(* SignatureSpec, RankingSpec; DetectSpec, StructuralSpec, ScanSpec,       *)
(* MatchSpec, BindSpec; SendSpec, ProbeSpec); the variables of the other   *)
(* components stay at their initial values.                                *)
(***************************************************************************)
EXTENDS Integers, Sequences, FiniteSets, TLC

VARIABLES
    \* ---- PatternVerifier ----
    patternName,        \* this.patternName (this.spec = SPECS[patternName])
    currentGuarantee,   \* this.currentGuarantee
    traces,             \* this.traces
    dom,                \* the state of the bound components the checks read
    calls,              \* the verify() invocations: one record per invocation
    \* ---- PassiveDetector ----
    enabled,            \* this.enabled
    _observer,          \* this._observer is set (not null)
    _correlationTimer,  \* this._correlationTimer is set (not null)
    listening,          \* the four document listeners are registered
    observers,          \* the MutationObservers that are connected
    timers,             \* the interval timers that are live
    correlationWindow,  \* this.correlationWindow
    minConfidence,      \* this.minConfidence, in hundredths
    _actionQueue,       \* this._actionQueue
    _mutationQueue,     \* this._mutationQueue
    inferred,           \* this.inferred: key -> inference
    now,                \* Date.now()
    ticked,             \* _correlate() has run at the present clock value
    reports,            \* the calls of _reportPattern, in order
    arrivals,           \* how many actions, mutation entries, batches, start()s, stop()s
    \* ---- DOMLocalityHash ----
    index,              \* this.index: fingerprint -> { signature, key }
    buckets,            \* this.buckets: band -> (band hash -> fingerprints, in order)
    lastCall,           \* the last call on the index and what it returned
    \* ---- UniversalController and ValueScanner ----
    page,               \* the document: its element nodes in document order
    edits,              \* how many times the page has changed the document
    detected,           \* this.detected: path -> { patternName, components, el }
    snapshots,          \* this.scanner.snapshots
    lastDiff,           \* this.lastDiff
    captures,           \* how many snapshots have been taken so far
    returned,           \* the last call on the controller and how it ended
    \* ---- API binding and the actions of a bound API ----
    boundAPIs,          \* this.boundAPIs: pattern name -> api
    sends,              \* the chatSend() invocations: one record per invocation
    inputEl,            \* the chat input chatSend() writes to
    targets,            \* the candidate inputs _probeInput() is handed
    probed              \* the last _probeInput() call: what it saw and returned

vvars == <<patternName, currentGuarantee, traces, dom, calls>>

pvars == <<enabled, _observer, _correlationTimer, listening, observers, timers,
           correlationWindow, minConfidence, _actionQueue, _mutationQueue,
           inferred, now, ticked, reports, arrivals>>

lvars == <<index, buckets, lastCall>>

cvars == <<page, edits, detected, snapshots, lastDiff, captures, returned>>

avars == <<boundAPIs, sends, inputEl, targets, probed>>

vars == <<vvars, pvars, lvars, cvars, avars>>

\* What the steps of one component leave alone.
vOthers == <<pvars, lvars, cvars, avars>>
pOthers == <<vvars, lvars, cvars, avars>>
lOthers == <<vvars, pvars, cvars, avars>>
cOthers == <<vvars, pvars, lvars, avars>>
aOthers == <<vvars, pvars, lvars>>

\* options.numHashes || 64, options.numBands || 16
NumHashes == 64
NumBands == 16
\* this.rowsPerBand = this.numHashes / this.numBands
RowsPerBand == NumHashes \div NumBands
\* options.shingleSize || 3
ShingleSize == 3

NoCall == [op |-> "none", key |-> 0, fingerprint |-> << >>, had |-> 0, ret |-> << >>]

\* new DOMLocalityHash(): an empty map for each band and an empty index.
LshIdle ==
    /\ index = << >>
    /\ buckets = [b \in 0..(NumBands - 1) |-> << >>]
    /\ lastCall = NoCall

\* How many chatSend() calls are made; they may overlap in time.
MaxSends == 2
SendIds == 1..MaxSends

\* A chatSend() invocation that has not been made yet.
\*   pc: idle, waiting (the promise is pending), resolved
\*   settled: the flag of settle()
\*   observer: none, connected, disconnected; pending: a mutation record is
\*   queued for the observer
\*   listener: none, added, removed (the input-event listener onInput)
\*   timer: none, pending, cleared, fired
\*   submits: how many times submitInput was invoked for the call
IdleSend ==
    [ pc |-> "idle", text |-> "", settled |-> FALSE, observer |-> "none",
      pending |-> FALSE, listener |-> "none", timer |-> "none", submits |-> 0,
      result |-> "none" ]

\* No API is bound.
BindIdle == boundAPIs = << >>

\* No chatSend() has been called; the input is an empty text field.
SendIdle ==
    /\ sends = [c \in SendIds |-> IdleSend]
    /\ inputEl = [kind |-> "input", value |-> "", events |-> 0]

\* No input has been probed.
ProbeIdle ==
    /\ targets = << >>
    /\ probed = [op |-> "none", calls |-> 0]

ApiIdle == BindIdle /\ SendIdle /\ ProbeIdle

\* new UniversalController() on a document with no elements: an empty registry,
\* a scanner with no snapshots, no diff.
ControllerIdle ==
    /\ page = << >>
    /\ edits = 0
    /\ detected = << >>
    /\ snapshots = << >>
    /\ lastDiff = [kind |-> "null"]
    /\ captures = 0
    /\ returned = [op |-> "none"]

(***************************************************************************)
(*                          PatternVerifier                                *)
(***************************************************************************)

\* Bounds of the document the verifier looks at.
MaxChildren == 1
\* The scroll offsets of the container: at the top, and scrolled down.
ScrollTops == {0, 120}
\* The time that passes in one step of the clock, in milliseconds.
Quantum == 2000

\* Two verify() invocations on the same verifier, numbered in the order they
\* are made; they may overlap in time.
CallIds == {1, 2}

\* const SPECS: the temporal invariants of every pattern that has any.
SPECS ==
    [ chat |->
        [ name |-> "ChatBox",
          actions |->
            [ send |->
                [ preconditions |-> << [check |-> "input-has-value"] >>,
                  postconditions |->
                    << [check |-> "input-cleared", timeout |-> 500],
                       [check |-> "children-added", timeout |-> 3000],
                       [check |-> "container-scrolled", timeout |-> 3500] >> ] ] ],
      form |->
        [ name |-> "Form",
          actions |->
            [ submit |->
                [ preconditions |-> << [check |-> "has-filled-fields"] >>,
                  postconditions |->
                    << [check |-> "inputs-cleared-or-hidden", timeout |-> 2000] >> ] ] ],
      dropdown |->
        [ name |-> "Dropdown",
          actions |->
            [ toggle |->
                [ preconditions |-> << >>,
                  postconditions |->
                    << [check |-> "aria-expanded-toggled", timeout |-> 500],
                       [check |-> "menu-visibility-changed", timeout |-> 500] >> ],
              select |->
                [ preconditions |-> << [check |-> "menu-visible"] >>,
                  postconditions |->
                    << [check |-> "menu-closed", timeout |-> 500],
                       [check |-> "trigger-text-changed", timeout |-> 500] >> ] ] ],
      modal |->
        [ name |-> "Modal",
          actions |->
            [ close |->
                [ preconditions |-> << [check |-> "modal-visible"] >>,
                  postconditions |->
                    << [check |-> "modal-hidden", timeout |-> 1000] >> ] ] ] ]

\* The pattern names a verifier is created for (createVerifier passes the name
\* of any bound pattern); "feed" has no entry in SPECS.
PatternNames == {"chat", "form", "dropdown", "modal", "feed"}

\* The action names verify() is called with on a verifier for pattern p: the
\* ones its specification defines and one that no specification defines.
ActionNames(p) ==
    (IF p \in DOMAIN SPECS THEN DOMAIN SPECS[p].actions ELSE {"send"}) \cup {"bogus"}

\* What the action function does when invoked: throw synchronously, return a
\* promise that rejects, return a promise that resolves, return a plain value.
ActionFns == {"throw", "reject", "resolve", "value"}

\* The components' state: which fields a pattern's components have.
DomFields(p) ==
    CASE p = "chat" -> {"inputValue", "childCount", "scrollTop"}
      [] p = "form" -> {"fieldsFilled", "containerVisible"}
      [] p = "dropdown" -> {"ariaExpanded", "menuVisible", "triggerText"}
      [] p = "modal" -> {"containerVisible"}
      [] OTHER -> {}

DomValues(f) ==
    CASE f = "inputValue" -> {"", "hi"}
      [] f = "childCount" -> 0..MaxChildren
      [] f = "scrollTop" -> ScrollTops
      [] f = "fieldsFilled" -> BOOLEAN
      [] f = "containerVisible" -> BOOLEAN
      [] f = "ariaExpanded" -> {"false", "true"}
      [] f = "menuVisible" -> BOOLEAN
      [] f = "triggerText" -> {"A", "B"}

DomDefault ==
    [ inputValue |-> "", childCount |-> 0, scrollTop |-> 0, fieldsFilled |-> FALSE,
      containerVisible |-> TRUE, ariaExpanded |-> "false", menuVisible |-> FALSE,
      triggerText |-> "A" ]

\* The documents a verifier for pattern p can be created on.
DomStates(p) ==
    { d \in [ inputValue : DomValues("inputValue"), childCount : DomValues("childCount"),
              scrollTop : DomValues("scrollTop"), fieldsFilled : BOOLEAN,
              containerVisible : BOOLEAN, ariaExpanded : DomValues("ariaExpanded"),
              menuVisible : BOOLEAN, triggerText : DomValues("triggerText") ] :
        \A f \in DOMAIN DomDefault : f \notin DomFields(p) => d[f] = DomDefault[f] }

\* _checkCondition(check): a precondition, read off the components now.
_checkCondition(check, d) ==
    CASE check = "input-has-value" -> d.inputValue # ""
      [] check = "has-filled-fields" -> d.fieldsFilled
      [] check = "menu-visible" -> d.menuVisible
      [] check = "modal-visible" -> d.containerVisible
      [] OTHER -> FALSE

\* _captureState(): what the postconditions compare against (inputValue and
\* fieldValues are captured too, and no check reads them).
_captureState(d) ==
    [ containerChildCount |-> d.childCount,
      containerScrollTop |-> d.scrollTop, ariaExpanded |-> d.ariaExpanded,
      menuVisible |-> d.menuVisible, triggerText |-> d.triggerText ]

NoState ==
    [ containerChildCount |-> 0, containerScrollTop |-> 0,
      ariaExpanded |-> "false", menuVisible |-> FALSE, triggerText |-> "A" ]

\* _checkPostCondition(check, initialState).
_checkPostCondition(check, d, initialState) ==
    CASE check = "input-cleared" -> d.inputValue = ""
      [] check = "children-added" -> d.childCount > initialState.containerChildCount
      [] check = "container-scrolled" -> d.scrollTop > initialState.containerScrollTop
      [] check = "inputs-cleared-or-hidden" -> (~d.fieldsFilled) \/ (~d.containerVisible)
      [] check = "aria-expanded-toggled" -> d.ariaExpanded # initialState.ariaExpanded
      [] check = "menu-visibility-changed" -> d.menuVisible # initialState.menuVisible
      [] check = "menu-closed" -> ~d.menuVisible
      [] check = "trigger-text-changed" -> d.triggerText # initialState.triggerText
      [] check = "modal-hidden" -> ~d.containerVisible
      [] OTHER -> FALSE

\* new PassiveDetector(): options.correlationWindow || 1000,
\* options.minConfidence || 0.6 (in hundredths); nothing is registered and the
\* queues and the map of inferences are empty.
PassiveIdle ==
    /\ enabled = FALSE /\ _observer = FALSE /\ _correlationTimer = FALSE
    /\ listening = FALSE /\ observers = 0 /\ timers = 0
    /\ correlationWindow = 1000 /\ minConfidence = 60
    /\ _actionQueue = << >> /\ _mutationQueue = << >>
    /\ inferred = << >> /\ now = 0 /\ ticked = FALSE /\ reports = << >>
    /\ arrivals = [actions |-> 0, mutations |-> 0, batches |-> 0,
                   starts |-> 0, stops |-> 0]

HasSpec(p) == p \in DOMAIN SPECS

HasAction(p, a) == HasSpec(p) /\ a \in DOMAIN SPECS[p].actions

ActionOf(p, a) == SPECS[p].actions[a]

NoRet == [passed |-> FALSE, results |-> << >>, guarantee |-> "none"]

\* A verify() invocation that has not been made yet.
\*   pc: idle, exec (awaiting the action's promise), waiting (a postcondition
\*   wait with a poll scheduled), resolved (a wait whose first poll, made in
\*   the promise's executor, held: the continuation of the await is queued),
\*   returned.
\*   fn: the pending promise of the action function, while pc = "exec".
\*   outcome: what the action function did: none, threw, rejected, completed.
\*   scheduled: the animation-frame callbacks (poll) of the call's waits that
\*   are requested and have not run; resolutions: the resolve() calls made by
\*   the polls of the call's waits.
IdleCall ==
    [ pc |-> "idle", action |-> "none", fn |-> "none", outcome |-> "none",
      results |-> << >>, initialState |-> NoState, idx |-> 0, elapsed |-> 0,
      invoked |-> 0, nwaits |-> 0, scheduled |-> 0, resolutions |-> 0,
      traceAt |-> 0, ret |-> NoRet ]

\* (mutant) only the preconditions that hold are recorded.
PreResultsPassing(action, d) ==
    SelectSeq([ i \in 1..Len(action.preconditions) |->
                  [ check |-> action.preconditions[i].check,
                    passed |-> _checkCondition(action.preconditions[i].check, d),
                    phase |-> "pre" ] ],
              LAMBDA r : r.passed)

PreResults(action, d) ==
    [ i \in 1..Len(action.preconditions) |->
        [ check |-> action.preconditions[i].check,
          passed |-> _checkCondition(action.preconditions[i].check, d),
          phase |-> "pre" ] ]

ExecFailure == [check |-> "execution", passed |-> FALSE, phase |-> "exec"]

\* (mutant) only the postconditions decide.
AllPostPassed(results) ==
    \A i \in 1..Len(results) : results[i].phase = "post" => results[i].passed

\* results.every(r => r.passed)
AllPassed(results) == \A i \in 1..Len(results) : results[i].passed

PhaseOf(results, ph) == SelectSeq(results, LAMBDA r : r.phase = ph)

\* The trace object of a call, as pushed onto this.traces.
TraceOf(cr, passed) ==
    [ action |-> cr.action,
      preconditions |-> PhaseOf(cr.results, "pre"),
      postconditions |-> PhaseOf(cr.results, "post"),
      passed |-> passed ]

\* (mutant) a verification that fails resets the level.
EscalateOrReset(g, allPassed) == IF allPassed THEN "VERIFIED" ELSE "STRUCTURAL"

\* if (allPassed) this.currentGuarantee = 'VERIFIED'
Escalate(g, allPassed) == IF allPassed THEN "VERIFIED" ELSE g

\* The end of verify(): all postconditions have been waited for.
Finish(c, cr) ==
    LET allPassed == AllPassed(cr.results)
        g == Escalate(currentGuarantee, allPassed) IN
    /\ traces' = Append(traces, TraceOf(cr, allPassed))
    /\ currentGuarantee' = g
    /\ calls' = [calls EXCEPT ![c] =
            [cr EXCEPT !.pc = "returned", !.traceAt = Len(traces) + 1,
                       !.initialState = NoState, !.idx = 0, !.elapsed = 0,
                       !.ret = [passed |-> allPassed, results |-> cr.results,
                                guarantee |-> g]]]
    /\ UNCHANGED <<patternName, dom, vOthers>>

\* (mutant) the clock of a wait is the one of the wait before it.
_waitForConditionSharedClock(cr, k) ==
    LET post == ActionOf(patternName, cr.action).postconditions[k]
        holds == _checkPostCondition(post.check, dom, cr.initialState) IN
    [cr EXCEPT !.idx = k, !.nwaits = @ + 1,
               !.scheduled = IF holds THEN @ ELSE @ + 1,
               !.resolutions = IF holds THEN @ + 1 ELSE @,
               !.pc = IF holds THEN "resolved" ELSE "waiting"]

\* _waitForCondition(check, timeout, initialState) up to its first poll, which
\* runs inside the promise's executor: start = Date.now(); poll().
_waitForCondition(cr, k) ==
    LET post == ActionOf(patternName, cr.action).postconditions[k]
        holds == _checkPostCondition(post.check, dom, cr.initialState) IN
    [cr EXCEPT !.idx = k, !.elapsed = 0, !.nwaits = @ + 1,
               !.scheduled = IF holds THEN @ ELSE @ + 1,
               !.resolutions = IF holds THEN @ + 1 ELSE @,
               !.pc = IF holds THEN "resolved" ELSE "waiting"]

\* The loop over action.postconditions from its k-th entry on, up to the next
\* await (or to the end of verify() when no entry is left).
PostLoop(c, cr, k) ==
    IF k <= Len(ActionOf(patternName, cr.action).postconditions)
    THEN /\ calls' = [calls EXCEPT ![c] = _waitForCondition(cr, k)]
         /\ UNCHANGED <<patternName, currentGuarantee, traces, dom, vOthers>>
    ELSE Finish(c, cr)

\* (mutant) the catch branch records the failure and falls through to the
\* postcondition loop.
ExecFailedFallsThrough(c, cr) ==
    PostLoop(c, [cr EXCEPT !.results = Append(@, ExecFailure)], 1)

\* The catch branch of verify(): the action threw or its promise rejected.
ExecFailed(c, cr) ==
    LET results == Append(cr.results, ExecFailure) IN
    /\ traces' = Append(traces, TraceOf(cr, FALSE))
    /\ calls' = [calls EXCEPT ![c] =
            [cr EXCEPT !.pc = "returned", !.results = results,
                       !.initialState = NoState, !.idx = 0, !.elapsed = 0,
                       !.fn = "none", !.traceAt = Len(traces) + 1,
                       !.ret = [passed |-> FALSE, results |-> results,
                                guarantee |-> currentGuarantee]]]
    /\ UNCHANGED <<patternName, currentGuarantee, dom, vOthers>>

\* (mutant) a configuration fault is logged as a trace before it is returned.
ConfigFailureTraced(c, actionName, check) ==
    /\ calls' = [calls EXCEPT ![c] =
          [@ EXCEPT !.pc = "returned", !.action = actionName,
                    !.ret = [passed |-> FALSE,
                             results |-> << [check |-> check, passed |-> FALSE,
                                             phase |-> "undefined"] >>,
                             guarantee |-> currentGuarantee]]]
    /\ traces' = Append(traces, TraceOf([calls[c] EXCEPT !.action = actionName], FALSE))
    /\ UNCHANGED <<patternName, currentGuarantee, dom, vOthers>>

\* The early returns of verify(): no specification for the pattern (check
\* 'spec'), or none for the action (check 'action').
ConfigFailure(c, actionName, check) ==
    /\ calls' = [calls EXCEPT ![c] =
          [@ EXCEPT !.pc = "returned", !.action = actionName,
                    !.ret = [passed |-> FALSE,
                             results |-> << [check |-> check, passed |-> FALSE,
                                             phase |-> "undefined"] >>,
                             guarantee |-> currentGuarantee]]]
    /\ UNCHANGED <<patternName, currentGuarantee, traces, dom, vOthers>>

\* verify(actionName, actionFn) from its call to its first await or return.
verify(c, actionName, fn) ==
    /\ calls[c].pc = "idle"
    /\ \A b \in CallIds : b < c => calls[b].pc # "idle"
    /\ IF ~HasSpec(patternName)
       THEN ConfigFailure(c, actionName, "spec")
       ELSE IF ~HasAction(patternName, actionName)
       THEN ConfigFailure(c, actionName, "action")
       ELSE LET cr == [calls[c] EXCEPT
                          !.action = actionName,
                          !.results = PreResults(ActionOf(patternName, actionName), dom),
                          !.initialState = _captureState(dom),
                          !.invoked = @ + 1] IN
            CASE fn = "throw" -> ExecFailed(c, [cr EXCEPT !.outcome = "threw"])
              [] fn \in {"reject", "resolve"} ->
                    /\ calls' = [calls EXCEPT ![c] = [cr EXCEPT !.pc = "exec", !.fn = fn]]
                    /\ UNCHANGED <<patternName, currentGuarantee, traces, dom, vOthers>>
              [] OTHER -> PostLoop(c, [cr EXCEPT !.outcome = "completed"], 1)

\* The promise returned by the action function settles: `await result` ends.
actionSettled(c) ==
    /\ calls[c].pc = "exec"
    /\ IF calls[c].fn = "reject"
       THEN ExecFailed(c, [calls[c] EXCEPT !.outcome = "rejected"])
       ELSE PostLoop(c, [calls[c] EXCEPT !.outcome = "completed", !.fn = "none"], 1)

\* (mutant) a poll that resolves its promise requests another frame all the
\* same.
AfterWaitPollsOn(c, cr, passed) ==
    LET post == ActionOf(patternName, cr.action).postconditions[cr.idx] IN
    PostLoop(c, [cr EXCEPT !.scheduled = @ + 1,
                           !.results =
                    Append(@, [check |-> post.check, passed |-> passed,
                               phase |-> "post"])],
             cr.idx + 1)

\* verify() continues after `await this._waitForCondition(...)` gave `passed`.
AfterWait(c, cr, passed) ==
    LET post == ActionOf(patternName, cr.action).postconditions[cr.idx] IN
    PostLoop(c, [cr EXCEPT !.results =
                    Append(@, [check |-> post.check, passed |-> passed,
                               phase |-> "post"])],
             cr.idx + 1)

\* (mutant) a poll gives up only when the check holds.
pollUntilHolds(c) ==
    /\ calls[c].scheduled > 0
    /\ LET cr == [calls[c] EXCEPT !.scheduled = @ - 1]
           post == ActionOf(patternName, cr.action).postconditions[cr.idx] IN
       IF _checkPostCondition(post.check, dom, cr.initialState)
       THEN AfterWait(c, [cr EXCEPT !.resolutions = @ + 1], TRUE)
       ELSE /\ calls' = [calls EXCEPT ![c] = [cr EXCEPT !.scheduled = @ + 1]]
            /\ UNCHANGED <<patternName, currentGuarantee, traces, dom, vOthers>>

\* poll(): a requested animation-frame callback of a postcondition wait runs.
\* When it resolves the promise, the continuation of verify() runs in the
\* microtask checkpoint that ends the callback; otherwise it requests the next
\* frame.
poll(c) ==
    /\ calls[c].scheduled > 0
    /\ LET cr == [calls[c] EXCEPT !.scheduled = @ - 1]
           post == ActionOf(patternName, cr.action).postconditions[cr.idx] IN
       IF _checkPostCondition(post.check, dom, cr.initialState)
       THEN AfterWait(c, [cr EXCEPT !.resolutions = @ + 1], TRUE)
       ELSE IF cr.elapsed > post.timeout
       THEN AfterWait(c, [cr EXCEPT !.resolutions = @ + 1], FALSE)
       ELSE /\ calls' = [calls EXCEPT ![c] = [cr EXCEPT !.scheduled = @ + 1]]
            /\ UNCHANGED <<patternName, currentGuarantee, traces, dom, vOthers>>

\* The queued continuation of a wait that was resolved by its first poll.
resume(c) ==
    /\ calls[c].pc = "resolved"
    /\ AfterWait(c, calls[c], TRUE)

\* Time passes: Date.now() - start grows for every pending wait.
Tick ==
    /\ \E c \in CallIds :
          /\ calls[c].pc = "waiting"
          /\ calls[c].elapsed <=
                ActionOf(patternName, calls[c].action).postconditions[calls[c].idx].timeout
    /\ calls' = [c \in CallIds |->
          IF /\ calls[c].pc = "waiting"
             /\ calls[c].elapsed <=
                   ActionOf(patternName, calls[c].action).postconditions[calls[c].idx].timeout
          THEN [calls[c] EXCEPT !.elapsed = @ + Quantum]
          ELSE calls[c]]
    /\ UNCHANGED <<patternName, currentGuarantee, traces, dom, vOthers>>

\* The page (or the action that was executed) changes a bound component.
DomChange(f, v) ==
    /\ f \in DomFields(patternName)
    /\ v \in DomValues(f)
    /\ dom[f] # v
    /\ dom' = [dom EXCEPT ![f] = v]
    /\ UNCHANGED <<patternName, currentGuarantee, traces, calls, vOthers>>

\* getGuarantee()
getGuarantee == currentGuarantee

VerifierInit ==
    /\ PassiveIdle /\ LshIdle /\ ApiIdle /\ ControllerIdle
    /\ patternName \in PatternNames
    /\ currentGuarantee = "STRUCTURAL"
    /\ traces = << >>
    /\ dom \in DomStates(patternName)
    /\ calls = [c \in CallIds |-> IdleCall]

VerifierNext ==
    \/ \E c \in CallIds, a \in ActionNames(patternName), fn \in ActionFns :
          verify(c, a, fn)
    \/ \E c \in CallIds : actionSettled(c)
    \/ \E c \in CallIds : poll(c)
    \/ \E c \in CallIds : resume(c)
    \/ Tick
    \/ \E f \in DOMAIN DomDefault : \E v \in DomValues(f) : DomChange(f, v)

VerifierSpec == VerifierInit /\ [][VerifierNext]_vars

----------------------------------------------------------------------------
\* Claims about PatternVerifier

Returns(c) == calls[c].pc # "returned" /\ calls'[c].pc = "returned"

\* C1: the guarantee level starts at STRUCTURAL, every change of it is a change
\* to VERIFIED, and once getGuarantee() is VERIFIED it is VERIFIED ever after,
\* whatever verify() calls (overlapping ones too) fail, throw or are
\* misconfigured.
C1_GuaranteeOnlyEscalates ==
    /\ getGuarantee = "STRUCTURAL"
    /\ [][ /\ getGuarantee' # getGuarantee => getGuarantee' = "VERIFIED"
           /\ getGuarantee = "VERIFIED" => getGuarantee' = "VERIFIED" ]_vars

\* A verify() that failed returned after another one had passed, and the level
\* is VERIFIED.
C1_Witness ==
    \E c, d \in CallIds :
        /\ calls[c].pc = "returned" /\ calls[c].ret.passed
        /\ calls[d].pc = "returned" /\ ~calls[d].ret.passed
        /\ calls[d].traceAt > calls[c].traceAt
        /\ getGuarantee = "VERIFIED"

C3_PassedIffAllChecks ==
    [][ \A c \in CallIds :
          (Returns(c) /\ calls'[c].outcome = "completed") =>
             LET r == calls'[c].ret
                 act == SPECS[patternName].actions[calls'[c].action]
                 np == Len(act.preconditions) IN
             /\ Len(r.results) = np + Len(act.postconditions)
             /\ \A i \in 1..Len(r.results) :
                    /\ r.results[i].phase = IF i <= np THEN "pre" ELSE "post"
                    /\ r.results[i].check =
                          IF i <= np THEN act.preconditions[i].check
                          ELSE act.postconditions[i - np].check
             /\ r.passed = (\A i \in 1..Len(r.results) : r.results[i].passed)
             /\ currentGuarantee' = IF r.passed THEN "VERIFIED" ELSE currentGuarantee
             /\ r.guarantee = currentGuarantee'
             /\ traces' = Append(traces, traces'[Len(traces')])
             /\ calls'[c].traceAt = Len(traces')
             /\ traces'[Len(traces')].passed = r.passed ]_vars

\* A call whose precondition failed and whose postconditions all passed has
\* returned passed = FALSE, and the other call has returned passed = TRUE.
C3_Witness ==
    \E c, d \in CallIds :
        /\ calls[c].pc = "returned" /\ calls[c].outcome = "completed"
        /\ ~calls[c].ret.passed
        /\ ~calls[c].ret.results[1].passed /\ calls[c].ret.results[1].phase = "pre"
        /\ \A i \in 2..Len(calls[c].ret.results) : calls[c].ret.results[i].passed
        /\ calls[d].pc = "returned" /\ calls[d].ret.passed

Enters(c) ==
    /\ calls[c].pc = "idle" /\ calls'[c].pc # "idle"
    /\ HasAction(patternName, calls'[c].action)

\* C21: a failing precondition does not stop a verification. When verify() is
\* entered while a precondition of the action is false, the step invokes the
\* action function once, records the precondition as a failed entry of phase
\* 'pre' at its place, and (unless the action function throws) goes on to the
\* action's promise or to the first postcondition wait; and a call whose
\* action completed returns having invoked it exactly once, having waited for
\* every postcondition and holding an entry of phase 'post' for each.
C21_FailedPreconditionGoesOn ==
    /\ [][ \A c \in CallIds :
             Enters(c) =>
               LET act == ActionOf(patternName, calls'[c].action) IN
               \A i \in 1..Len(act.preconditions) :
                  ~_checkCondition(act.preconditions[i].check, dom) =>
                     /\ calls'[c].invoked = 1
                     /\ i <= Len(calls'[c].results)
                     /\ calls'[c].results[i] =
                           [ check |-> act.preconditions[i].check,
                             passed |-> FALSE, phase |-> "pre" ]
                     /\ calls'[c].outcome # "threw" =>
                           /\ calls'[c].pc \in {"exec", "waiting", "resolved"}
                           /\ calls'[c].pc # "exec" =>
                                 calls'[c].idx = 1 /\ calls'[c].nwaits = 1 ]_vars
    /\ [][ \A c \in CallIds :
             (Returns(c) /\ calls'[c].outcome = "completed") =>
               LET act == ActionOf(patternName, calls'[c].action)
                   np == Len(act.preconditions)
                   r == calls'[c].ret.results IN
               /\ calls'[c].invoked = 1
               /\ calls'[c].nwaits = Len(act.postconditions)
               /\ \A k \in 1..Len(act.postconditions) :
                     /\ r[np + k].phase = "post"
                     /\ r[np + k].check = act.postconditions[k].check ]_vars

\* A call entered with its precondition false has returned after its action
\* completed: invoked once, three postconditions waited for, the first entry
\* the failed precondition, and the last postcondition passed.
C21_Witness ==
    \E c \in CallIds :
        /\ calls[c].pc = "returned" /\ calls[c].outcome = "completed"
        /\ calls[c].invoked = 1 /\ calls[c].nwaits = 3
        /\ calls[c].ret.results[1] =
              [check |-> "input-has-value", passed |-> FALSE, phase |-> "pre"]
        /\ Len(calls[c].ret.results) = 4
        /\ calls[c].ret.results[4].passed
        /\ ~calls[c].ret.results[3].passed

\* The postcondition entries a call has collected so far.
PostEntries(c) == PhaseOf(calls[c].results, "post")

\* C22: within one verify() call the postconditions are waited for one at a
\* time in declared order. The wait of postcondition k starts in the step that
\* resolves the wait of postcondition k-1 (for k = 1: when the action has
\* completed) and its clock starts at zero then; while it is pending exactly
\* the k-1 earlier postconditions have entries; a postcondition that failed is
\* followed by the waits of the later ones; and the results returned are the
\* precondition entries followed by one entry per postcondition in declared
\* order.
C22_PostconditionsInSequence ==
    /\ [][ \A c \in CallIds :
             (calls'[c].idx # calls[c].idx /\ calls'[c].idx > 0) =>
               LET k == calls'[c].idx
                   act == ActionOf(patternName, calls'[c].action)
                   np == Len(act.preconditions) IN
               /\ k = calls[c].idx + 1
               /\ calls'[c].elapsed = 0
               /\ calls'[c].nwaits = k
               /\ calls'[c].pc \in {"waiting", "resolved"}
               /\ Len(calls'[c].results) = np + k - 1
               /\ k > 1 =>
                     /\ calls[c].pc \in {"waiting", "resolved"}
                     /\ Len(calls[c].results) = np + k - 2
                     /\ calls'[c].results[np + k - 1].check =
                           act.postconditions[k - 1].check
                     /\ calls'[c].results[np + k - 1].phase = "post" ]_vars
    /\ [][ \A c \in CallIds :
             (calls[c].pc \in {"waiting", "resolved"} /\ calls'[c].pc = "returned") =>
               LET act == ActionOf(patternName, calls[c].action)
                   np == Len(act.preconditions)
                   r == calls'[c].ret.results IN
               /\ calls[c].idx = Len(act.postconditions)
               /\ Len(r) = np + Len(act.postconditions)
               /\ \A i \in 1..np : r[i] = calls[c].results[i] /\ r[i].phase = "pre"
               /\ \A k \in 1..Len(act.postconditions) :
                     r[np + k].check = act.postconditions[k].check ]_vars

\* A call is waiting for its third postcondition after the first one timed out
\* and the second one passed.
C22_Witness ==
    \E c \in CallIds :
        /\ calls[c].pc = "waiting" /\ calls[c].idx = 3
        /\ Len(PostEntries(c)) = 2
        /\ ~PostEntries(c)[1].passed /\ PostEntries(c)[2].passed
        /\ calls[c].elapsed > 0

\* C23: each postcondition wait resolves exactly once. At every moment a call
\* has one animation-frame callback requested while a wait of it is pending
\* and none otherwise (none is left behind by a wait that has resolved), and
\* it has made as many resolve() calls as it has waits that are over; a pending
\* wait leaves that state only by a poll that resolves it, to true when the
\* check holds at that poll and to false when it does not and more than the
\* timeout has passed since the wait started.
C23_WaitResolvesOnce ==
    /\ [](\A c \in CallIds :
            LET pending == IF calls[c].pc = "waiting" THEN 1 ELSE 0 IN
            /\ calls[c].scheduled = pending
            /\ calls[c].resolutions = calls[c].nwaits - pending
            /\ calls[c].resolutions =
                  Len(PostEntries(c)) + (IF calls[c].pc = "resolved" THEN 1 ELSE 0))
    /\ [][ \A c \in CallIds :
             (calls[c].pc = "waiting" /\ calls'[c] # calls[c]) =>
               LET post == ActionOf(patternName, calls[c].action).postconditions[calls[c].idx]
                   held == _checkPostCondition(post.check, dom, calls[c].initialState)
                   late == calls[c].elapsed > post.timeout
                   n == Len(calls[c].results) IN
               \/ calls'[c] = [calls[c] EXCEPT !.elapsed = @ + Quantum]
               \/ /\ held \/ late
                  /\ calls'[c].resolutions = calls[c].resolutions + 1 +
                        (IF calls'[c].pc = "resolved" THEN 1 ELSE 0)
                  /\ SubSeq(calls'[c].results, 1, n + 1) =
                        Append(calls[c].results,
                               [check |-> post.check, passed |-> held, phase |-> "post"])
                  /\ calls'[c].idx # calls[c].idx ]_vars

\* A call has returned after three waits, the second of which resolved to
\* false, and the other call has a wait pending whose timeout has elapsed.
C23_Witness ==
    \E c, d \in CallIds :
        /\ calls[c].pc = "returned" /\ calls[c].resolutions = 3
        /\ PostEntries(c)[1].passed /\ ~PostEntries(c)[2].passed
        /\ PostEntries(c)[3].passed
        /\ calls[d].pc = "waiting" /\ calls[d].scheduled = 1
        /\ calls[d].resolutions = 1 /\ calls[d].elapsed > 3000

\* The calls made in the runs that are checked for termination.
MaxLiveCalls == 1

LiveCallIds == {c \in CallIds : c <= MaxLiveCalls}

VerifierLiveNext ==
    \/ \E c \in LiveCallIds, a \in ActionNames(patternName), fn \in ActionFns :
          verify(c, a, fn)
    \/ \E c \in LiveCallIds : actionSettled(c)
    \/ \E c \in LiveCallIds : poll(c)
    \/ \E c \in LiveCallIds : resume(c)
    \/ Tick
    \/ \E f \in DOMAIN DomDefault : \E v \in DomValues(f) : DomChange(f, v)

\* The scheduling the environment provides: the promise of the action function
\* settles, queued continuations run, requested animation frames are
\* delivered, and the clock advances. Nothing is assumed about the page.
VerifierLiveSpec ==
    /\ VerifierInit /\ [][VerifierLiveNext]_vars
    /\ \A c \in LiveCallIds :
          /\ WF_vars(actionSettled(c))
          /\ WF_vars(resume(c))
          /\ WF_vars(poll(c))
    /\ WF_vars(Tick)

\* The timeout of the wait the call is in.
TimeoutOf(c) ==
    ActionOf(patternName, calls[c].action).postconditions[calls[c].idx].timeout

\* C24: every verify() call eventually returns when the action settles, the
\* clock advances and animation frames are delivered; a wait that is pending
\* when more than its timeout has passed is over at the next poll, before the
\* clock of that wait moves again; and a wait resolves to false only at a poll
\* at which the check is false and more than the timeout has passed.
C24_VerifyReturns ==
    /\ <>[](\A c \in CallIds : calls[c].pc \in {"idle", "returned"})
    /\ [][ \A c \in CallIds :
             ( /\ calls[c].pc = "waiting" /\ calls[c].elapsed > TimeoutOf(c)
               /\ calls'[c] # calls[c] ) => calls'[c].idx # calls[c].idx ]_vars
    /\ [][ \A c \in CallIds :
             ( /\ calls[c].pc = "waiting"
               /\ Len(calls'[c].results) > Len(calls[c].results)
               /\ ~calls'[c].results[Len(calls[c].results) + 1].passed ) =>
                  /\ calls[c].elapsed > TimeoutOf(c)
                  /\ ~_checkPostCondition(
                        ActionOf(patternName, calls[c].action).postconditions[calls[c].idx].check,
                        dom, calls[c].initialState) ]_vars

\* A call has returned whose action completed and whose three waits all timed
\* out.
C24_Witness ==
    \E c \in CallIds :
        /\ calls[c].pc = "returned"
        /\ calls[c].outcome = "completed" /\ calls[c].nwaits = 3
        /\ \A i \in 1..3 : ~PostEntries(c)[i].passed


(***************************************************************************)
(*                           PassiveDetector                               *)
(***************************************************************************)

\* setInterval(() => this._correlate(), 500): the period, and the step of the
\* clock, in milliseconds.
TimerPeriod == 500
\* _trimQueue(queue, maxSize = 100)
MaxSize == 100
\* The clock stops after this many steps.
MaxClock == 4
\* How many user actions, and how many batches of mutation records, arrive.
MaxActions == 2
MaxBatches == 2
\* How many times start() and stop() are called, how many events arrive and
\* how far the clock runs while they are.
MaxCalls == 3
MaxEvents == 2
MaxLifeClock == 2
\* How many queue entries arrive in one burst: more than MaxSize.
MaxArrivals == 102

\* The nodes of the page. null: no node.
Nodes == {"btn", "box", "field", "list", "dlg", "panel", "msg", "text"}

\* node.tagName, node.id, node.nodeType
TagName ==
    [ btn |-> "BUTTON", box |-> "DIV", field |-> "INPUT", list |-> "UL",
      dlg |-> "DIV", panel |-> "DIV", msg |-> "LI", text |-> "", null |-> "" ]

IdOf ==
    [ btn |-> "", box |-> "", field |-> "", list |-> "feed",
      dlg |-> "", panel |-> "", msg |-> "", text |-> "", null |-> "" ]

IsElement(n) == n \in Nodes \ {"text"}

\* target.hasAttribute('aria-expanded')
HasAriaExpanded(n) == n = "btn"

\* target.closest('[role="combobox"], [role="listbox"]') || target.parentElement
ClosestOrParent(n) ==
    CASE n = "btn" -> "box"
      [] n = "field" -> "box"
      [] n = "msg" -> "list"
      [] OTHER -> "null"

\* node.getAttribute('role') === 'dialog' || aria-modal === 'true'
IsDialog(n) == n = "dlg"

\* position fixed or absolute, offsetWidth > 200 and offsetHeight > 100
IsLargeFixed(n) == n = "panel"

\* a.contains(b), for a # b
Contains(a, b) == a = "list" /\ b = "msg"

\* The user events that reach the document listeners.
ClickTargets == {"btn", "box"}
ScrollEvents ==
    { [target |-> "list", atBottom |-> TRUE], [target |-> "null", atBottom |-> FALSE] }
KeyEvents ==
    { [target |-> "field", key |-> "Enter"], [target |-> "field", key |-> "a"] }

\* The mutation records a MutationObserver callback is handed.
ChildList(target, added, removed) ==
    [ type |-> "childList", target |-> target, addedNodes |-> added,
      removedNodes |-> removed, attributeName |-> "" ]

Attributes(target, attr) ==
    [ type |-> "attributes", target |-> target, addedNodes |-> << >>,
      removedNodes |-> 0, attributeName |-> attr ]

MutationBatches ==
    { << Attributes("btn", "aria-expanded") >>,
      << ChildList("box", << "dlg" >>, 0) >>,
      << ChildList("box", << "panel" >>, 0) >>,
      << ChildList("list", << "text", "msg" >>, 1) >> }

NoMeta == [hasAriaExpanded |-> FALSE, isInput |-> FALSE, atBottom |-> FALSE]

\* An entry of _actionQueue; id numbers the entries in the order they arrived.
ActionEntry(type, target, meta) ==
    [ id |-> arrivals.actions + 1, type |-> type, target |-> target,
      timestamp |-> now, meta |-> meta, _correlated |-> FALSE ]

\* (mutant) the queue is cut at the wrong end.
TrimNewest(queue, maxSize) ==
    IF Len(queue) > maxSize THEN SubSeq(queue, 1, maxSize) ELSE queue

\* _trimQueue(queue, maxSize): while (queue.length > maxSize) queue.shift()
_trimQueue(queue, maxSize) ==
    IF Len(queue) > maxSize
    THEN SubSeq(queue, Len(queue) - maxSize + 1, Len(queue))
    ELSE queue

PushAction(entry) ==
    /\ _actionQueue' = _trimQueue(Append(_actionQueue, entry), MaxSize)
    /\ arrivals' = [arrivals EXCEPT !.actions = @ + 1]
    /\ UNCHANGED <<enabled, _observer, _correlationTimer, listening, observers, timers,
                   correlationWindow, minConfidence, _mutationQueue, inferred, now,
                   ticked, reports, pOthers>>

_handleClick(target) ==
    /\ listening
    /\ PushAction(ActionEntry("click", target,
            [NoMeta EXCEPT !.hasAriaExpanded = HasAriaExpanded(target)]))

_handleInput(target) ==
    /\ listening
    /\ PushAction(ActionEntry("input", target, NoMeta))

\* el = e.target === document ? document.scrollingElement : e.target; the event
\* whose target is "null" is a scroll of a document without scrolling element.
_handleScroll(e) ==
    /\ listening
    /\ IF e.target = "null"
       THEN UNCHANGED vars
       ELSE PushAction(ActionEntry("scroll", e.target,
                [NoMeta EXCEPT !.atBottom = e.atBottom]))

_handleKeydown(e) ==
    /\ listening
    /\ IF e.key # "Enter"
       THEN UNCHANGED vars
       ELSE PushAction(ActionEntry("enter", e.target,
                [NoMeta EXCEPT !.isInput = TagName[e.target] \in {"INPUT", "TEXTAREA"}]))

\* The queue entries one mutation record gives rise to, numbered from id on.
EntriesOf(m, id) ==
    LET added ==
            IF m.type = "childList" /\ Len(m.addedNodes) > 0
            THEN << [ id |-> id, type |-> "children-added", target |-> m.target,
                      timestamp |-> now, count |-> Len(m.addedNodes),
                      nodes |-> SelectSeq(m.addedNodes, IsElement), attr |-> "" ] >>
            ELSE << >>
        removed ==
            IF m.type = "childList" /\ m.removedNodes > 0
            THEN << [ id |-> id + Len(added), type |-> "children-removed",
                      target |-> m.target, timestamp |-> now,
                      count |-> m.removedNodes, nodes |-> << >>, attr |-> "" ] >>
            ELSE << >>
        attr ==
            IF m.type = "attributes"
            THEN << [ id |-> id, type |-> "attr-changed", target |-> m.target,
                      timestamp |-> now, count |-> 0, nodes |-> << >>,
                      attr |-> m.attributeName ] >>
            ELSE << >>
    IN added \o removed \o attr

RECURSIVE EntriesOfAll(_, _)
EntriesOfAll(mutations, id) ==
    IF mutations = << >> THEN << >>
    ELSE LET first == EntriesOf(Head(mutations), id) IN
         first \o EntriesOfAll(Tail(mutations), id + Len(first))

_handleMutations(mutations) ==
    /\ observers > 0
    /\ LET entries == EntriesOfAll(mutations, arrivals.mutations + 1) IN
       /\ _mutationQueue' = _trimQueue(_mutationQueue \o entries, MaxSize)
       /\ arrivals' = [arrivals EXCEPT !.mutations = @ + Len(entries),
                                       !.batches = @ + 1]
    /\ UNCHANGED <<enabled, _observer, _correlationTimer, listening, observers, timers,
                   correlationWindow, minConfidence, _actionQueue, inferred, now,
                   ticked, reports, pOthers>>


\* ---- the correlation engine ----

NoInference ==
    [ pattern |-> "none", confidence |-> 0, evidence |-> "", container |-> "null" ]

RECURSIVE FlattenNodes(_)
FlattenNodes(ms) ==
    IF ms = << >> THEN << >> ELSE Head(ms).nodes \o FlattenNodes(Tail(ms))

\* childrenAdded.sort((a, b) => b.count - a.count)[0]?.target: the sort is
\* stable, so this is the first entry among those with the largest count.
LargestFirst(ms) ==
    LET best == CHOOSE i \in 1..Len(ms) :
                    /\ \A j \in 1..Len(ms) : ms[j].count <= ms[i].count
                    /\ \A j \in 1..(i - 1) : ms[j].count < ms[i].count
    IN ms[best].target

\* (mutant) the modal rule is tried before the dropdown rule.
_inferPatternModalFirst(action, mutations) ==
    LET ariaChange == SelectSeq(mutations,
            LAMBDA m : m.type = "attr-changed" /\ m.attr = "aria-expanded")
        appeared == SelectSeq(mutations, LAMBDA m : m.type = "children-added")
        hits == SelectSeq(FlattenNodes(appeared),
            LAMBDA n : IsDialog(n) \/ IsLargeFixed(n))
        inside == SelectSeq(mutations,
            LAMBDA m : /\ m.type = "children-added"
                       /\ (m.target = action.target \/ Contains(action.target, m.target)))
    IN
    IF action.type = "click" /\ Len(hits) > 0
    THEN [ pattern |-> "modal",
           confidence |-> IF IsDialog(hits[1]) THEN 95 ELSE 75,
           evidence |-> IF IsDialog(hits[1]) THEN "dialog role appeared"
                        ELSE "fixed element appeared after click",
           container |-> hits[1] ]
    ELSE IF action.type = "click" /\ action.meta.hasAriaExpanded /\ Len(ariaChange) > 0
    THEN [ pattern |-> "dropdown", confidence |-> 90,
           evidence |-> "click + aria-expanded toggled",
           container |-> ClosestOrParent(action.target) ]
    ELSE IF action.type = "enter" /\ action.meta.isInput /\ Len(appeared) > 0
    THEN [ pattern |-> "chat", confidence |-> 85,
           evidence |-> "enter + children added (message sent)",
           container |-> LargestFirst(appeared) ]
    ELSE IF action.type = "scroll" /\ action.meta.atBottom /\ Len(inside) > 0
    THEN [ pattern |-> "feed", confidence |-> 70,
           evidence |-> "scroll to bottom + children added",
           container |-> action.target ]
    ELSE NoInference

\* _inferPattern(action, mutations): the first rule that matches.
_inferPattern(action, mutations) ==
    LET ariaChange == SelectSeq(mutations,
            LAMBDA m : m.type = "attr-changed" /\ m.attr = "aria-expanded")
        appeared == SelectSeq(mutations, LAMBDA m : m.type = "children-added")
        hits == SelectSeq(FlattenNodes(appeared),
            LAMBDA n : IsDialog(n) \/ IsLargeFixed(n))
        inside == SelectSeq(mutations,
            LAMBDA m : /\ m.type = "children-added"
                       /\ (m.target = action.target \/ Contains(action.target, m.target)))
    IN
    IF action.type = "click" /\ action.meta.hasAriaExpanded /\ Len(ariaChange) > 0
    THEN [ pattern |-> "dropdown", confidence |-> 90,
           evidence |-> "click + aria-expanded toggled",
           container |-> ClosestOrParent(action.target) ]
    ELSE IF action.type = "click" /\ Len(hits) > 0
    THEN [ pattern |-> "modal",
           confidence |-> IF IsDialog(hits[1]) THEN 95 ELSE 75,
           evidence |-> IF IsDialog(hits[1]) THEN "dialog role appeared"
                        ELSE "fixed element appeared after click",
           container |-> hits[1] ]
    ELSE IF action.type = "enter" /\ action.meta.isInput /\ Len(appeared) > 0
    THEN [ pattern |-> "chat", confidence |-> 85,
           evidence |-> "enter + children added (message sent)",
           container |-> LargestFirst(appeared) ]
    ELSE IF action.type = "scroll" /\ action.meta.atBottom /\ Len(inside) > 0
    THEN [ pattern |-> "feed", confidence |-> 70,
           evidence |-> "scroll to bottom + children added",
           container |-> action.target ]
    ELSE NoInference

\* `${pattern}:${container?.tagName || ''}:${container?.id || ''}`
KeyOf(inf) == <<inf.pattern, TagName[inf.container], IdOf[inf.container]>>

\* (mutant) an inference of equal confidence replaces the stored one.
KeepsExistingIfHigher(existing, newConfidence) == existing.confidence > newConfidence

\* existing.confidence >= inferred.confidence: the new inference is dropped.
KeepsExisting(existing, newConfidence) == existing.confidence >= newConfidence

\* _reportPattern(inferred) on the map inf: the map afterwards.
_reportPattern(inf, new) ==
    LET key == KeyOf(new) IN
    IF key \in DOMAIN inf /\ KeepsExisting(inf[key], new.confidence)
    THEN inf
    ELSE [k \in DOMAIN inf \cup {key} |-> IF k = key THEN new ELSE inf[k]]

\* What one call of _reportPattern did: the action it reports, the tick it ran
\* in, the confidence stored under the key before (-1: none), and whether the
\* new inference was stored and the pattern callbacks were called.
ReportEntry(inf, action, new) ==
    LET key == KeyOf(new) IN
    [ action |-> action.id, at |-> now, timestamp |-> action.timestamp,
      key |-> key, confidence |-> new.confidence,
      existing |-> IF key \in DOMAIN inf THEN inf[key].confidence ELSE -1,
      stored |-> _reportPattern(inf, new) # inf \/
                 (key \in DOMAIN inf /\ ~KeepsExisting(inf[key], new.confidence)) ]

\* (mutant) actions of any age are correlated.
TooOldNever(action, window) == FALSE

\* (mutant) an action is skipped as soon as it is as old as the window.
TooOldAtWindow(action, window) == now - action.timestamp >= window

\* if (now - action.timestamp > window) continue
TooOld(action, window) == now - action.timestamp > window

\* (mutant) the _correlated flag is not looked at.
AlreadyCorrelatedIgnored(action) == FALSE

\* if (action._correlated) continue
AlreadyCorrelated(action) == action._correlated

\* (mutant) mutations recorded before the action count as well.
InWindowOrBefore(action, mq, window) ==
    SelectSeq(mq, LAMBDA m : m.timestamp <= action.timestamp + window)

\* The mutations an action is correlated with.
InWindow(action, mq, window) ==
    SelectSeq(mq, LAMBDA m : /\ m.timestamp >= action.timestamp
                             /\ m.timestamp <= action.timestamp + window)

\* (mutant) every inference is reported, whatever its confidence.
RECURSIVE CorrelateAnyFrom(_, _, _, _, _)
CorrelateAnyFrom(i, aq, mq, inf, log) ==
    IF i > Len(aq) THEN [aq |-> aq, inferred |-> inf, reports |-> log]
    ELSE
      LET action == aq[i]
          mutations == InWindow(action, mq, correlationWindow)
          new == _inferPattern(action, mutations)
      IN
      IF \/ TooOld(action, correlationWindow)
         \/ AlreadyCorrelated(action)
         \/ Len(mutations) = 0
         \/ new = NoInference
      THEN CorrelateAnyFrom(i + 1, aq, mq, inf, log)
      ELSE CorrelateAnyFrom(i + 1, [aq EXCEPT ![i]._correlated = TRUE], mq,
                            _reportPattern(inf, new),
                            Append(log, ReportEntry(inf, action, new)))

\* The loop of _correlate() over the action queue aq from its i-th entry on,
\* with the inferred map and the report log so far.
RECURSIVE CorrelateFrom(_, _, _, _, _)
CorrelateFrom(i, aq, mq, inf, log) ==
    IF i > Len(aq) THEN [aq |-> aq, inferred |-> inf, reports |-> log]
    ELSE
      LET action == aq[i]
          mutations == InWindow(action, mq, correlationWindow)
          new == _inferPattern(action, mutations)
      IN
      IF \/ TooOld(action, correlationWindow)
         \/ AlreadyCorrelated(action)
         \/ Len(mutations) = 0
         \/ new = NoInference
         \/ ~(new.confidence >= minConfidence)
      THEN CorrelateFrom(i + 1, aq, mq, inf, log)
      ELSE CorrelateFrom(i + 1, [aq EXCEPT ![i]._correlated = TRUE], mq,
                         _reportPattern(inf, new),
                         Append(log, ReportEntry(inf, action, new)))

\* _correlate(): the callback of the interval timer.
_correlate ==
    /\ timers > 0
    /\ LET window == correlationWindow
           aq == SelectSeq(_actionQueue, LAMBDA a : now - a.timestamp < window * 2)
           mq == SelectSeq(_mutationQueue, LAMBDA m : now - m.timestamp < window * 2)
           out == CorrelateFrom(1, aq, mq, inferred, reports)
       IN /\ _actionQueue' = out.aq
          /\ _mutationQueue' = mq
          /\ inferred' = out.inferred
          /\ reports' = out.reports
    /\ ticked' = TRUE
    /\ UNCHANGED <<enabled, _observer, _correlationTimer, listening, observers, timers,
                   correlationWindow, minConfidence, now, arrivals, pOthers>>

\* (mutant) start() without its guard.
startAgain ==
    /\ enabled' = TRUE
    /\ listening' = TRUE
    /\ _observer' = TRUE /\ observers' = observers + 1
    /\ _correlationTimer' = TRUE /\ timers' = timers + 1
    /\ arrivals' = [arrivals EXCEPT !.starts = @ + 1]
    /\ UNCHANGED <<correlationWindow, minConfidence, _actionQueue, _mutationQueue,
                   inferred, now, ticked, reports, pOthers>>

\* start(): if (this.enabled) return; adding a listener that is registered
\* already adds nothing. arrivals.starts counts the calls.
start ==
    /\ arrivals' = [arrivals EXCEPT !.starts = @ + 1]
    /\ IF enabled
       THEN UNCHANGED <<enabled, _observer, _correlationTimer, listening, observers,
                        timers>>
       ELSE /\ enabled' = TRUE
            /\ listening' = TRUE
            /\ _observer' = TRUE /\ observers' = observers + 1
            /\ _correlationTimer' = TRUE /\ timers' = timers + 1
    /\ UNCHANGED <<correlationWindow, minConfidence, _actionQueue, _mutationQueue,
                   inferred, now, ticked, reports, pOthers>>

\* (mutant) a stop() that leaves the interval timer running.
stopKeepsTimer ==
    /\ arrivals' = [arrivals EXCEPT !.stops = @ + 1]
    /\ IF ~enabled
       THEN UNCHANGED <<enabled, _observer, _correlationTimer, listening, observers,
                        timers>>
       ELSE /\ enabled' = FALSE
            /\ listening' = FALSE
            /\ _observer' = FALSE
            /\ observers' = IF _observer THEN observers - 1 ELSE observers
            /\ UNCHANGED <<_correlationTimer, timers>>
    /\ UNCHANGED <<correlationWindow, minConfidence, _actionQueue, _mutationQueue,
                   inferred, now, ticked, reports, pOthers>>

\* stop(): if (!this.enabled) return; disconnects the observer and clears the
\* timer this object refers to. arrivals.stops counts the calls.
stop ==
    /\ arrivals' = [arrivals EXCEPT !.stops = @ + 1]
    /\ IF ~enabled
       THEN UNCHANGED <<enabled, _observer, _correlationTimer, listening, observers,
                        timers>>
       ELSE /\ enabled' = FALSE
            /\ listening' = FALSE
            /\ _observer' = FALSE
            /\ observers' = IF _observer THEN observers - 1 ELSE observers
            /\ _correlationTimer' = FALSE
            /\ timers' = IF _correlationTimer THEN timers - 1 ELSE timers
    /\ UNCHANGED <<correlationWindow, minConfidence, _actionQueue, _mutationQueue,
                   inferred, now, ticked, reports, pOthers>>

\* clearInferred()
clearInferred ==
    /\ inferred # << >>
    /\ inferred' = << >>
    /\ UNCHANGED <<enabled, _observer, _correlationTimer, listening, observers, timers,
                   correlationWindow, minConfidence, _actionQueue, _mutationQueue,
                   now, ticked, reports, arrivals, pOthers>>

\* getInferred(): the stored inferences.
getInferred == { inferred[k] : k \in DOMAIN inferred }

\* Date.now() moves on.
ClockStep ==
    /\ now < MaxClock * TimerPeriod
    /\ now' = now + TimerPeriod
    /\ ticked' = FALSE
    /\ UNCHANGED <<enabled, _observer, _correlationTimer, listening, observers, timers,
                   correlationWindow, minConfidence, _actionQueue, _mutationQueue,
                   inferred, reports, arrivals, pOthers>>

\* The PatternVerifier as constructed, for the specifications it takes no part in.
VerifierIdle ==
    /\ patternName = "feed" /\ currentGuarantee = "STRUCTURAL" /\ traces = << >>
    /\ dom = DomDefault /\ calls = [c \in CallIds |-> IdleCall]

\* A page with a detector and a verifier just constructed.
PassiveInit == VerifierIdle /\ PassiveIdle /\ LshIdle /\ ApiIdle /\ ControllerIdle

\* The correlation engine: the detector is started once and left running; the
\* user clicks, presses Enter and scrolls, the page mutates, the timer ticks.
PassiveNext ==
    \/ arrivals.starts = 0 /\ start
    \/ /\ arrivals.actions < MaxActions
       /\ \/ \E t \in ClickTargets : _handleClick(t)
          \/ _handleScroll([target |-> "list", atBottom |-> TRUE])
          \/ _handleKeydown([target |-> "field", key |-> "Enter"])
    \/ /\ arrivals.batches < MaxBatches
       /\ \E b \in MutationBatches : _handleMutations(b)
    \/ _correlate
    \/ clearInferred
    \/ ClockStep

PassiveSpec == PassiveInit /\ [][PassiveNext]_vars

\* The life cycle: start() and stop() are called in any order while events of
\* every kind arrive, the timer ticks and the clock moves on.
LifecycleNext ==
    \/ arrivals.starts + arrivals.stops < MaxCalls /\ start
    \/ arrivals.starts + arrivals.stops < MaxCalls /\ stop
    \/ /\ arrivals.actions + arrivals.batches < MaxEvents
       /\ \/ \E t \in ClickTargets : _handleClick(t)
          \/ _handleInput("field")
          \/ \E e \in ScrollEvents : _handleScroll(e)
          \/ \E e \in KeyEvents : _handleKeydown(e)
          \/ \E b \in MutationBatches : _handleMutations(b)
    \/ _correlate
    \/ now < MaxLifeClock * TimerPeriod /\ ClockStep

LifecycleSpec == PassiveInit /\ [][LifecycleNext]_vars

\* A batch of records from which no rule of _inferPattern draws an inference.
QueueBatch == << Attributes("btn", "aria-expanded"), ChildList("list", << >>, 1) >>

\* The queues under load: a burst of events at one instant, the user going
\* round click, typing, scroll and Enter and the page answering with a batch
\* of records whenever it is behind; the timer ticks throughout and the clock
\* runs on until the entries are purged.
QueueNext ==
    \/ arrivals.starts = 0 /\ start
    \/ /\ now = 0 /\ arrivals.actions < MaxArrivals
       /\ arrivals.actions <= arrivals.mutations
       /\ \/ arrivals.actions % 4 = 0 /\ _handleClick("box")
          \/ arrivals.actions % 4 = 1 /\ _handleInput("field")
          \/ arrivals.actions % 4 = 2
                /\ _handleScroll([target |-> "list", atBottom |-> TRUE])
          \/ arrivals.actions % 4 = 3
                /\ _handleKeydown([target |-> "field", key |-> "Enter"])
    \/ /\ now = 0 /\ arrivals.mutations < MaxArrivals
       /\ arrivals.mutations < arrivals.actions
       /\ _handleMutations(QueueBatch)
    \/ _correlate
    \/ ClockStep

QueueSpec == PassiveInit /\ [][QueueNext]_vars


\* ---- claims about the correlation engine ----

\* The inference _correlate() would draw for a queued action from the mutation
\* queue as it is now.
WouldInfer(action) ==
    LET mutations == InWindow(action, _mutationQueue, correlationWindow) IN
    IF Len(mutations) = 0 THEN NoInference ELSE _inferPattern(action, mutations)

Reported(id) == \E i \in DOMAIN reports : reports[i].action = id

\* C5: a tick skips every action whose age (tick time minus the action's
\* timestamp) is greater than correlationWindow: no pattern is ever reported
\* for an action at a tick at which it is that old, and an action is marked
\* correlated only by a tick that reported it, whatever mutations are queued.
C5_OldActionsSkipped ==
    /\ \A i \in DOMAIN reports :
          reports[i].at - reports[i].timestamp <= correlationWindow
    /\ \A i \in DOMAIN _actionQueue :
          _actionQueue[i]._correlated => Reported(_actionQueue[i].id)

\* A tick has just run over an action older than the window for which a
\* reportable inference could be drawn from the queued mutations; the action
\* is left unmarked and unreported.
C5_Witness ==
    /\ ticked
    /\ \E i \in DOMAIN _actionQueue :
          LET a == _actionQueue[i] IN
          /\ now - a.timestamp > correlationWindow
          /\ WouldInfer(a) # NoInference
          /\ WouldInfer(a).confidence >= minConfidence
          /\ ~a._correlated
          /\ ~Reported(a.id)

\* C6: each queued user action gives rise to at most one reported inference,
\* the result of the first rule of _inferPattern that matches it; an action is
\* marked correlated as soon as it is reported.
C6_AtMostOneReport ==
    /\ \A i, j \in DOMAIN reports :
          reports[i].action = reports[j].action => i = j
    /\ \A i \in DOMAIN _actionQueue :
          Reported(_actionQueue[i].id) => _actionQueue[i]._correlated

\* A click on the button was reported as a dropdown at an earlier tick although
\* a dialog had appeared as well; a later tick has run while the action is
\* still within the window and has not reported it again.
C6_Witness ==
    /\ ticked
    /\ \E i \in DOMAIN _actionQueue :
          LET a == _actionQueue[i] IN
          /\ now - a.timestamp <= correlationWindow
          /\ a._correlated
          /\ WouldInfer(a).pattern = "dropdown"
          /\ \E m \in DOMAIN _mutationQueue :
                /\ _mutationQueue[m].type = "children-added"
                /\ _mutationQueue[m].nodes = << "dlg" >>
                /\ _mutationQueue[m].timestamp >= a.timestamp
          /\ \E r \in DOMAIN reports :
                /\ reports[r].action = a.id
                /\ reports[r].at < now
                /\ reports[r].key[1] = "dropdown"

\* C8 as stated: an inference for a key that has an entry replaces the entry
\* (and notifies) exactly when its confidence is not lower than the stored one.
C8_ReplacesWhenNotLower ==
    \A i \in DOMAIN reports :
        reports[i].existing >= 0 =>
            (reports[i].stored <=> reports[i].confidence >= reports[i].existing)

\* C8 (amended): the detector keeps at most one inferred pattern per key; an
\* inference is stored (and the callbacks notified) exactly when the key has no
\* entry or the new confidence is strictly higher than the stored one, and is
\* dropped when it is lower or equal; the confidence stored under a key never
\* decreases, and a key is only removed by clearInferred(), which removes all.
C8_ReplacesOnlyWhenHigher ==
    /\ [](/\ \A k \in DOMAIN inferred : KeyOf(inferred[k]) = k
          /\ \A i \in DOMAIN reports :
                reports[i].stored <=>
                    \/ reports[i].existing = -1
                    \/ reports[i].confidence > reports[i].existing)
    /\ [][ \A k \in DOMAIN inferred :
             IF k \in DOMAIN inferred'
             THEN inferred'[k].confidence >= inferred[k].confidence
             ELSE inferred' = << >> ]_vars

\* A second inference of the same confidence arrived for a key and was dropped.
C8_Witness ==
    \E i \in DOMAIN reports :
        /\ reports[i].existing >= 0
        /\ reports[i].confidence = reports[i].existing
        /\ ~reports[i].stored
        /\ reports[i].key \in DOMAIN inferred

\* The entries the report log gained in this step.
NewReports == SubSeq(reports', Len(reports) + 1, Len(reports'))

\* C26: a correlation for an action is based only on the mutations whose
\* timestamp lies between the action's timestamp and correlationWindow after
\* it. Whenever a tick reports an inference for an action, the queue holds at
\* least one mutation with a timestamp in that interval, and the inference
\* (its key and its confidence) is the one the rules draw from the mutations
\* of that interval alone, whatever mutations with other timestamps are
\* queued; an action without a mutation in the interval is not marked
\* correlated by the tick.
C26_OnlyMutationsInWindow ==
    /\ [][ \A r \in DOMAIN NewReports : \E i \in DOMAIN _actionQueue :
             LET a == _actionQueue[i]
                 ms == SelectSeq(_mutationQueue,
                          LAMBDA m : /\ m.timestamp >= a.timestamp
                                     /\ m.timestamp <= a.timestamp + correlationWindow)
             IN /\ a.id = NewReports[r].action
                /\ Len(ms) > 0
                /\ NewReports[r].key = KeyOf(_inferPattern(a, ms))
                /\ NewReports[r].confidence = _inferPattern(a, ms).confidence ]_vars
    /\ [][ \A i \in DOMAIN _actionQueue : \A j \in DOMAIN _actionQueue' :
             LET a == _actionQueue[i] IN
             ( /\ _actionQueue'[j].id = a.id
               /\ ~a._correlated /\ _actionQueue'[j]._correlated ) =>
                  \E m \in DOMAIN _mutationQueue :
                     /\ _mutationQueue[m].timestamp >= a.timestamp
                     /\ _mutationQueue[m].timestamp <= a.timestamp + correlationWindow ]_vars

\* A click on the button was reported as a modal for the dialog that appeared
\* after it: the change of aria-expanded that is queued was recorded before
\* the click and did not make it a dropdown.
C26_Witness ==
    \E r \in DOMAIN reports : \E i \in DOMAIN _actionQueue :
        /\ _actionQueue[i].id = reports[r].action
        /\ _actionQueue[i].type = "click" /\ _actionQueue[i].meta.hasAriaExpanded
        /\ reports[r].key[1] = "modal"
        /\ \E m \in DOMAIN _mutationQueue :
              /\ _mutationQueue[m].type = "attr-changed"
              /\ _mutationQueue[m].timestamp < _actionQueue[i].timestamp

\* The mutations of action a's interval.
Within(a) ==
    SelectSeq(_mutationQueue,
        LAMBDA m : /\ m.timestamp >= a.timestamp
                   /\ m.timestamp <= a.timestamp + correlationWindow)

\* The element nodes the children-added mutations of action a's interval
\* added, in the order of the queue.
AddedNodes(a) ==
    FlattenNodes(SelectSeq(Within(a), LAMBDA m : m.type = "children-added"))

\* The action is a click on an element with aria-expanded and an aria-expanded
\* attribute changed in its interval.
DropdownRule(a) ==
    /\ a.type = "click" /\ a.meta.hasAriaExpanded
    /\ \E k \in DOMAIN Within(a) :
          Within(a)[k].type = "attr-changed" /\ Within(a)[k].attr = "aria-expanded"

MaxTimedActions == 1

\* new PassiveDetector(options): the document's default minConfidence, or a
\* stricter one passed as an option.
TimedInit ==
    /\ VerifierIdle /\ LshIdle /\ ApiIdle /\ ControllerIdle
    /\ enabled = FALSE /\ _observer = FALSE /\ _correlationTimer = FALSE
    /\ listening = FALSE /\ observers = 0 /\ timers = 0
    /\ correlationWindow = 1000 /\ minConfidence \in {60, 80}
    /\ _actionQueue = << >> /\ _mutationQueue = << >>
    /\ inferred = << >> /\ now = 0 /\ ticked = FALSE /\ reports = << >>
    /\ arrivals = [actions |-> 0, mutations |-> 0, batches |-> 0,
                   starts |-> 0, stops |-> 0]

\* Date.now() moves on by one timer period; while the interval timer is set,
\* its callback has run in the period that ends.
TimedClockStep ==
    /\ timers > 0 => ticked
    /\ ClockStep

\* The detector with its timer: started once, the user acts once, the page
\* mutates, and the timer's callback runs at least once in every period.
TimedNext ==
    \/ arrivals.starts = 0 /\ start
    \/ /\ arrivals.actions < MaxTimedActions
       /\ \/ \E t \in ClickTargets : _handleClick(t)
          \/ _handleScroll([target |-> "list", atBottom |-> TRUE])
          \/ _handleKeydown([target |-> "field", key |-> "Enter"])
    \/ /\ arrivals.batches < MaxBatches
       /\ \E b \in MutationBatches : _handleMutations(b)
    \/ _correlate
    \/ TimedClockStep

\* setInterval delivers the callback and the clock advances.
TimedSpec ==
    /\ TimedInit /\ [][TimedNext]_vars
    /\ WF_vars(_correlate) /\ WF_vars(TimedClockStep)

\* A queued action that is not correlated and for which the queued mutations
\* of its window give an inference that reaches minConfidence.
Correlatable(a) ==
    /\ ~a._correlated
    /\ WouldInfer(a) # NoInference
    /\ WouldInfer(a).confidence >= minConfidence

\* C25 as stated: while the detector is started, an uncorrelated action with a
\* rule-satisfying mutation recorded at most correlationWindow after it is
\* eventually marked correlated and reported by some tick.
C25_EventuallyCorrelated ==
    \A id \in 1..MaxTimedActions :
        (enabled /\ \E i \in DOMAIN _actionQueue :
                       _actionQueue[i].id = id /\ Correlatable(_actionQueue[i]))
            ~> Reported(id)

\* C25 (amended): a tick that runs while the detector is started reports, and
\* marks correlated, every queued action that is at most correlationWindow old
\* at that tick and for which the mutations recorded up to that tick, at most
\* correlationWindow after the action, give an inference of at least
\* minConfidence; so such an action is eventually reported when the tick of the
\* current timer period is still to come. (An action whose matching mutation
\* is recorded after the last tick at which it is that young is never
\* reported.)
C25_CorrelatedByTimelyTick ==
    /\ [][ (arrivals' = arrivals /\ now' = now /\ timers > 0) =>
             \A i \in DOMAIN _actionQueue :
                LET a == _actionQueue[i] IN
                (Correlatable(a) /\ now - a.timestamp <= correlationWindow) =>
                   /\ Reported(a.id)'
                   /\ \E j \in DOMAIN _actionQueue' :
                         /\ _actionQueue'[j].id = a.id
                         /\ _actionQueue'[j]._correlated ]_vars
    /\ \A id \in 1..MaxTimedActions :
          (enabled /\ ~ticked /\
             \E i \in DOMAIN _actionQueue :
                /\ _actionQueue[i].id = id /\ Correlatable(_actionQueue[i])
                /\ now - _actionQueue[i].timestamp <= correlationWindow)
             ~> Reported(id)

\* An action was reported by a tick that ran when the action was exactly
\* correlationWindow old, for a mutation recorded at that same time.
C25_Witness ==
    \E r \in DOMAIN reports : \E m \in DOMAIN _mutationQueue :
        /\ reports[r].at - reports[r].timestamp = correlationWindow
        /\ _mutationQueue[m].timestamp = reports[r].at
        /\ Len(_mutationQueue) = 1

\* C28: a pattern is reported, and its action marked correlated, only when the
\* confidence of the inference is at least minConfidence. Every report has
\* such a confidence and every correlated action has a report; a tick leaves
\* an action uncorrelated and unreported when the mutations of its interval
\* give no inference or one below minConfidence; and the action is evaluated
\* again by every later tick at which it is at most correlationWindow old: as
\* soon as the inference then reaches minConfidence that tick reports it.
C28_ReportedOnlyAtMinConfidence ==
    /\ [](/\ \A r \in DOMAIN reports : reports[r].confidence >= minConfidence
          /\ \A i \in DOMAIN _actionQueue :
                _actionQueue[i]._correlated <=> Reported(_actionQueue[i].id))
    /\ [][ (arrivals' = arrivals /\ now' = now) =>
             \A i \in DOMAIN _actionQueue :
                LET a == _actionQueue[i]
                    new == IF Within(a) = << >> THEN NoInference
                           ELSE _inferPattern(a, Within(a)) IN
                ~a._correlated =>
                   IF /\ new # NoInference /\ new.confidence >= minConfidence
                      /\ now - a.timestamp <= correlationWindow /\ timers > 0
                   THEN Reported(a.id)'
                   ELSE /\ ~Reported(a.id)'
                        /\ \A j \in DOMAIN _actionQueue' :
                              _actionQueue'[j].id = a.id =>
                                 ~_actionQueue'[j]._correlated ]_vars

\* With minConfidence 0.8, a click whose first matching mutation was a fixed
\* panel (modal, 0.75) was left alone by the tick of that period and was
\* reported as a dropdown (0.9) by a later tick, after aria-expanded changed.
C28_Witness ==
    /\ minConfidence = 80
    /\ \E r \in DOMAIN reports : \E m, n \in DOMAIN _mutationQueue :
          /\ reports[r].key[1] = "dropdown"
          /\ _mutationQueue[m].nodes = << "panel" >>
          /\ _mutationQueue[m].timestamp >= reports[r].timestamp
          /\ _mutationQueue[n].type = "attr-changed"
          /\ _mutationQueue[n].timestamp > _mutationQueue[m].timestamp
          /\ reports[r].at >= _mutationQueue[n].timestamp

\* A queued mutation that by itself gives an inference for the queued action a
\* and was recorded at most one timer period after it.
PromptMatches(a) ==
    { m \in DOMAIN _mutationQueue :
          /\ _mutationQueue[m].timestamp >= a.timestamp
          /\ _mutationQueue[m].timestamp <= a.timestamp + TimerPeriod
          /\ _inferPattern(a, << _mutationQueue[m] >>) # NoInference }

\* C36: with correlationWindow 1000, minConfidence 0.6 and the timer's
\* callback running in every period of 500 ms while the detector is started,
\* an action with a rule-satisfying mutation recorded at most 500 ms after it
\* is marked correlated and reported by the first tick at or after the
\* mutation: every tick that runs with such a pair queued, at most one
\* period after the mutation, leaves the action correlated and reported, no
\* period after the mutation's ends without it, and the tick comes.
C36_PromptMutationCorrelatedByNextTick ==
    /\ [][ (minConfidence = 60 /\ arrivals' = arrivals /\ now' = now
              /\ timers > 0) =>
             \A i \in DOMAIN _actionQueue :
                (\E m \in PromptMatches(_actionQueue[i]) :
                     now <= _mutationQueue[m].timestamp + TimerPeriod) =>
                   /\ \E r \in DOMAIN reports' :
                         reports'[r].action = _actionQueue[i].id
                   /\ \E j \in DOMAIN _actionQueue' :
                         /\ _actionQueue'[j].id = _actionQueue[i].id
                         /\ _actionQueue'[j]._correlated ]_vars
    /\ [](minConfidence = 60 =>
             \A i \in DOMAIN _actionQueue :
                \A m \in PromptMatches(_actionQueue[i]) :
                   (now > _mutationQueue[m].timestamp /\ ticked) =>
                       /\ _actionQueue[i]._correlated
                       /\ Reported(_actionQueue[i].id))
    /\ \A id \in 1..MaxTimedActions :
          (minConfidence = 60 /\ enabled /\
             \E i \in DOMAIN _actionQueue :
                /\ _actionQueue[i].id = id
                /\ PromptMatches(_actionQueue[i]) # {})
             ~> Reported(id)

\* With minConfidence 0.6, an action was reported by the tick that ran when
\* it was exactly correlationWindow old, for a mutation recorded one timer
\* period after the action, after the tick of that period had run.
C36_Witness ==
    /\ minConfidence = 60
    /\ ticked
    /\ Len(reports) = 1
    /\ reports[1].at - reports[1].timestamp = correlationWindow
    /\ reports[1].at = now
    /\ \E i \in DOMAIN _actionQueue :
          /\ _actionQueue[i].id = reports[1].action
          /\ PromptMatches(_actionQueue[i]) # {}
          /\ \A m \in DOMAIN _mutationQueue :
                _mutationQueue[m].timestamp = _actionQueue[i].timestamp + TimerPeriod


\* ---- claims about the life cycle and the queues ----

\* What start() and stop() register and release.
Registered == <<enabled, listening, _observer, _correlationTimer, observers, timers>>

\* C7: start() on a started detector and stop() on a stopped one change
\* nothing, and after any sequence of start() and stop() calls there is exactly
\* one correlation timer and one mutation observer (and the listeners) while
\* the detector is enabled, and none while it is disabled.
C7_StartStopIdempotent ==
    /\ [](IF enabled
          THEN /\ timers = 1 /\ observers = 1 /\ listening
               /\ _observer /\ _correlationTimer
          ELSE /\ timers = 0 /\ observers = 0 /\ ~listening
               /\ ~_observer /\ ~_correlationTimer)
    /\ [][ /\ (enabled /\ arrivals'.starts > arrivals.starts) =>
                /\ Registered' = Registered
                /\ <<_actionQueue, _mutationQueue, inferred>>' =
                       <<_actionQueue, _mutationQueue, inferred>>
           /\ (~enabled /\ arrivals'.stops > arrivals.stops) =>
                /\ Registered' = Registered
                /\ <<_actionQueue, _mutationQueue, inferred>>' =
                       <<_actionQueue, _mutationQueue, inferred>> ]_vars

\* start() has been called twice and stop() never: one timer, one observer.
C7_Witness ==
    /\ arrivals.starts >= 2 /\ arrivals.stops = 0
    /\ enabled /\ timers = 1 /\ observers = 1

NewestInOrder(queue, total) ==
    queue # << >> =>
        /\ queue[Len(queue)].id = total
        /\ \A i \in 1..(Len(queue) - 1) : queue[i + 1].id = queue[i].id + 1
        /\ queue[1].id > 1 => Len(queue) = MaxSize

\* C9: after every handler and every tick the action queue and the mutation
\* queue hold at most 100 entries each; when more arrive the oldest entries
\* are the ones removed, and the entries that remain keep their arrival order.
C9_QueuesBounded ==
    /\ Len(_actionQueue) <= MaxSize
    /\ Len(_mutationQueue) <= MaxSize
    /\ NewestInOrder(_actionQueue, arrivals.actions)
    /\ NewestInOrder(_mutationQueue, arrivals.mutations)

\* Both queues are full and have lost their oldest entries.
C9_Witness ==
    /\ Len(_actionQueue) = MaxSize /\ _actionQueue[1].id > 1
    /\ Len(_mutationQueue) = MaxSize /\ _mutationQueue[1].id > 2


(***************************************************************************)
(*                           DOMLocalityHash                               *)
(***************************************************************************)

\* A 32-bit unsigned integer is the pair <<high 16 bits, low 16 bits>>; a
\* string is the sequence of its UTF-16 code units.
Half == 256 * 256

\* ^ on two bits, on two hexadecimal digits and on two 16-bit halves
XorBit(a, b) == (a + b) % 2
XorDigit ==
    [ a \in 0..15, b \in 0..15 |->
        XorBit(a % 2, b % 2) + 2 * XorBit((a \div 2) % 2, (b \div 2) % 2)
        + 4 * XorBit((a \div 4) % 2, (b \div 4) % 2) + 8 * XorBit(a \div 8, b \div 8) ]
Xor16(a, b) ==
    XorDigit[a % 16, b % 16] + 16 * XorDigit[(a \div 16) % 16, (b \div 16) % 16]
    + 256 * XorDigit[(a \div 256) % 16, (b \div 256) % 16]
    + 4096 * XorDigit[a \div 4096, b \div 4096]

\* x ^ y
Xor32(x, y) == <<Xor16(x[1], y[1]), Xor16(x[2], y[2])>>

\* Math.imul(h, 0x01000193): the low 32 bits of h * (2^24 + 0x193)
imul(h) ==
    LET low == h[2] * 403
        high == h[1] * 403 + (low \div Half) + (h[2] % 256) * 256
    IN <<high % Half, low % Half>>

\* 0x811c9dc5
OffsetBasis == <<33052, 40389>>
\* 0xFFFFFFFF
AllOnes == <<65535, 65535>>

Less(x, y) == x[1] < y[1] \/ (x[1] = y[1] /\ x[2] < y[2])

\* h ^= x; h = Math.imul(h, 0x01000193), on an h that has been computed
FnvStep(h, x) == IF h = h THEN imul(Xor32(h, x)) ELSE h

\* hash32(str): FNV-1a over the code units; h after the first i of them
RECURSIVE FnvChars(_, _)
FnvChars(str, i) ==
    IF i = 0 THEN OffsetBasis
    ELSE FnvStep(FnvChars(str, i - 1), <<0, str[i]>>)

hash32(str) == FnvChars(str, Len(str))

\* this.seeds[i] = i * 0x9e3779b9, as the 32-bit operand of ^
seeds ==
    [ i \in 0..(NumHashes - 1) |->
        LET low == i * 31161
            high == i * 40503 + (low \div Half)
        IN <<high % Half, low % Half>> ]

\* minhash(shingles): for each seed the least permuted hash of a shingle
minhash(shingles) ==
    LET hs == { hash32(sh) : sh \in shingles } IN
    [ i \in 0..(NumHashes - 1) |->
        LET permuted == { Xor32(h, seeds[i]) : h \in hs } IN
        IF permuted = {} THEN AllOnes
        ELSE CHOOSE m \in permuted : \A o \in permuted : ~Less(o, m) ]

\* features.slice(i, i + shingleSize).join('|')
RECURSIVE Join(_)
Join(parts) ==
    IF Len(parts) = 1 THEN parts[1]
    ELSE parts[1] \o <<124>> \o Join(Tail(parts))

\* h.toString(16).padStart(8, '0'): eight hexadecimal digits
Hex4(n) == << n \div 4096, (n \div 256) % 16, (n \div 16) % 16, n % 16 >>
Hex8(h) == Hex4(h[1]) \o Hex4(h[2])

\* Array.from(mh).map(...).join('')
HexOf(mh) ==
    [ j \in 1..(8 * NumHashes) |-> Hex8(mh[(j - 1) \div 8])[((j - 1) % 8) + 1] ]

\* The Set of shingles signature() collects:
\* for (i = 0; i <= features.length - shingleSize; i++) shingles.add(...)
Shingles(features) ==
    { Join(SubSeq(features, i + 1, i + ShingleSize)) :
        i \in 0..(Len(features) - ShingleSize) }

\* (mutant) each shingle is hashed together with its position.
signatureByPosition(features) ==
    LET shingles == { <<i>> \o Join(SubSeq(features, i + 1, i + ShingleSize)) :
                        i \in 0..(Len(features) - ShingleSize) }
        mh == minhash(shingles)
    IN [ features |-> features, minhash |-> mh, fingerprint |-> HexOf(mh) ]

\* signature(el), given the features extractFeatures(el) walks out of el
signature(features) ==
    LET shingles == Shingles(features)
        mh == minhash(shingles)
    IN [ features |-> features, minhash |-> mh, fingerprint |-> HexOf(mh) ]

\* (mutant) positions count where the first vector is not above the second.
similarityOrdered(sig1, sig2) ==
    LET len == NumHashes
        agree == Cardinality({ i \in 0..(len - 1) :
                                 ~Less(sig2.minhash[i], sig1.minhash[i]) })
    IN <<agree, len>>

\* similarity(sig1, sig2): agree / len, as the fraction <<agree, len>>
similarity(sig1, sig2) ==
    LET len == NumHashes
        agree == Cardinality({ i \in 0..(len - 1) : sig1.minhash[i] = sig2.minhash[i] })
    IN <<agree, len>>

\* bandHash(mh, bandIndex): h after the rows of the band up to row i
RECURSIVE BandFrom(_, _, _)
BandFrom(mh, first, i) ==
    IF i < first THEN OffsetBasis
    ELSE FnvStep(BandFrom(mh, first, i - 1), mh[i])

bandHash(mh, bandIndex) ==
    LET first == bandIndex * RowsPerBand IN
    BandFrom(mh, first, first + RowsPerBand - 1)

\* The feature tokens of extractFeatures.
\* 'tag:DIV'
tagDIV == <<116, 97, 103, 58, 68, 73, 86>>
\* 'tag:UL'
tagUL == <<116, 97, 103, 58, 85, 76>>
\* 'tag:LI'
tagLI == <<116, 97, 103, 58, 76, 73>>
\* 'depth:0'
depth0 == <<100, 101, 112, 116, 104, 58, 48>>
\* 'depth:1'
depth1 == <<100, 101, 112, 116, 104, 58, 49>>
\* 'children:0'
children0 == <<99, 104, 105, 108, 100, 114, 101, 110, 58, 48>>
\* 'children:1'
children1 == <<99, 104, 105, 108, 100, 114, 101, 110, 58, 49>>
\* 'shape:LI'
shapeLI == <<115, 104, 97, 112, 101, 58, 76, 73>>
\* 'role:menuitem'
roleMenuitem == <<114, 111, 108, 101, 58, 109, 101, 110, 117, 105, 116, 101, 109>>
\* 'children:4-10'
children4to10 == <<99, 104, 105, 108, 100, 114, 101, 110, 58, 52, 45, 49, 48>>
\* 'shape:LI,LI,LI,LI,LI'
shapeLIx5 == <<115, 104, 97, 112, 101, 58, 76, 73, 44, 76, 73, 44, 76, 73, 44, 76, 73, 44, 76, 73>>
\* 'repeat:4-10'
repeat4to10 == <<114, 101, 112, 101, 97, 116, 58, 52, 45, 49, 48>>

\* The features of a childless LI at depth 1.
item == << tagLI, depth1, children0 >>

\* extractFeatures(el) for the subtrees that are hashed: a text node, two
\* empty DIVs, a UL with one LI, the same with role="menuitem" on the LI, a DIV
\* with one LI, and a UL with six and one with seven LIs.
extractFeatures ==
    [ text |-> << >>,
      leaf |-> << tagDIV, depth0, children0 >>,
      leaf2 |-> << tagDIV, depth0, children0 >>,
      list |-> << tagUL, depth0, children1, shapeLI >> \o item,
      menu |-> << tagUL, depth0, children1, shapeLI >> \o item \o << roleMenuitem >>,
      wrap |-> << tagDIV, depth0, children1, shapeLI >> \o item,
      ul6 |-> << tagUL, depth0, children4to10, shapeLIx5, repeat4to10 >>
                \o item \o item \o item \o item \o item \o item,
      ul7 |-> << tagUL, depth0, children4to10, shapeLIx5, repeat4to10 >>
                \o item \o item \o item \o item \o item \o item \o item ]

Elements == DOMAIN extractFeatures

\* The signatures of the subtrees.
Sig == [ e \in Elements |-> signature(extractFeatures[e]) ]


Keys == {1, 2}

\* The entry stored under a fingerprint; metadata = {} throughout.
EntryOf(sig, key) == [ signature |-> sig, key |-> key ]

\* map.set(k, v)
MapSet(map, k, v) == [ x \in DOMAIN map \cup {k} |-> IF x = k THEN v ELSE map[x] ]

\* map.delete(k)
MapDelete(map, k) == [ x \in DOMAIN map \ {k} |-> map[x] ]

\* set.add(x) and set.delete(x) on a Set, which keeps insertion order
SetAdd(set, x) ==
    IF \E i \in DOMAIN set : set[i] = x THEN set ELSE Append(set, x)
SetDelete(set, x) == SelectSeq(set, LAMBDA y : y # x)

CallOf(op, key, fingerprint, had, ret) ==
    [ op |-> op, key |-> key, fingerprint |-> fingerprint, had |-> had, ret |-> ret ]

\* The key stored under a fingerprint; 0: none.
KeyAt(fingerprint) ==
    IF fingerprint \in DOMAIN index THEN index[fingerprint].key ELSE 0

\* (mutant) a fingerprint that is indexed already keeps its entry.
addToIndexFirstWins(key, sig) ==
    /\ IF sig.fingerprint \in DOMAIN index
       THEN UNCHANGED <<index, buckets>>
       ELSE /\ index' = MapSet(index, sig.fingerprint, EntryOf(sig, key))
            /\ buckets' =
                 [ b \in DOMAIN buckets |->
                     LET bh == bandHash(sig.minhash, b)
                         band == buckets[b]
                     IN MapSet(band, bh, <<sig.fingerprint>>) ]
    /\ lastCall' = CallOf("addToIndex", key, sig.fingerprint,
                          KeyAt(sig.fingerprint), << >>)
    /\ UNCHANGED lOthers

\* addToIndex(key, sig)
addToIndex(key, sig) ==
    /\ index' = MapSet(index, sig.fingerprint, EntryOf(sig, key))
    /\ buckets' =
         [ b \in DOMAIN buckets |->
             LET bh == bandHash(sig.minhash, b)
                 band == buckets[b]
                 bucket == IF bh \in DOMAIN band THEN band[bh] ELSE << >>
             IN MapSet(band, bh, SetAdd(bucket, sig.fingerprint)) ]
    /\ lastCall' = CallOf("addToIndex", key, sig.fingerprint,
                          KeyAt(sig.fingerprint), << >>)
    /\ UNCHANGED lOthers

\* (mutant) the entry is deleted and the buckets are left as they are.
removeFromIndexEntryOnly(fingerprint) ==
    /\ IF fingerprint \notin DOMAIN index
       THEN UNCHANGED <<index, buckets>>
       ELSE /\ index' = MapDelete(index, fingerprint)
            /\ UNCHANGED buckets
    /\ lastCall' = CallOf("removeFromIndex", 0, fingerprint, KeyAt(fingerprint), << >>)
    /\ UNCHANGED lOthers

\* removeFromIndex(fingerprint)
removeFromIndex(fingerprint) ==
    /\ IF fingerprint \notin DOMAIN index
       THEN UNCHANGED <<index, buckets>>
       ELSE LET entry == index[fingerprint] IN
            /\ buckets' =
                 [ b \in DOMAIN buckets |->
                     LET bh == bandHash(entry.signature.minhash, b)
                         band == buckets[b]
                     IN IF bh \notin DOMAIN band THEN band
                        ELSE IF SetDelete(band[bh], fingerprint) = << >>
                             THEN MapDelete(band, bh)
                             ELSE MapSet(band, bh, SetDelete(band[bh], fingerprint)) ]
            /\ index' = MapDelete(index, fingerprint)
    /\ lastCall' = CallOf("removeFromIndex", 0, fingerprint, KeyAt(fingerprint), << >>)
    /\ UNCHANGED lOthers

\* clearIndex()
clearIndex ==
    /\ index' = << >>
    /\ buckets' = [ b \in DOMAIN buckets |-> << >> ]
    /\ lastCall' = CallOf("clearIndex", 0, << >>, 0, << >>)
    /\ UNCHANGED lOthers

\* candidateFingerprints after the bands up to b: a Set, in insertion order.
AddAll(seen, bucket) ==
    IF seen = seen
    THEN seen \o SelectSeq(bucket, LAMBDA fp : \A i \in DOMAIN seen : seen[i] # fp)
    ELSE seen

RECURSIVE Candidates(_, _)
Candidates(sig, b) ==
    IF b < 0 THEN << >>
    ELSE LET bh == bandHash(sig.minhash, b)
             bucket == IF bh \in DOMAIN buckets[b] THEN buckets[b][bh] ELSE << >>
         IN AddAll(Candidates(sig, b - 1), bucket)

\* a sorts before b: b.similarity - a.similarity < 0
Before(a, b) == a.similarity[1] * b.similarity[2] > b.similarity[1] * a.similarity[2]

\* (mutant) the results are returned in the order they were found.
AsFound(results) == results

\* results.sort((a, b) => b.similarity - a.similarity): the sort is stable.
RECURSIVE SortBySimilarity(_)
SortBySimilarity(results) ==
    IF results = << >> THEN << >>
    ELSE LET best == CHOOSE i \in DOMAIN results :
                        /\ \A j \in DOMAIN results : ~Before(results[j], results[i])
                        /\ \A j \in 1..(i - 1) : Before(results[i], results[j])
             rest == [ j \in 1..(Len(results) - 1) |->
                         IF j < best THEN results[j] ELSE results[j + 1] ]
         IN <<results[best]>> \o SortBySimilarity(rest)

\* querySimilar(sig): what it returns
QuerySimilar(sig) ==
    LET candidateFingerprints == Candidates(sig, NumBands - 1)
        found == SelectSeq(candidateFingerprints, LAMBDA fp : fp \in DOMAIN index)
        results == [ i \in DOMAIN found |->
                       [ key |-> index[found[i]].key,
                         fingerprint |-> found[i],
                         similarity |-> similarity(sig, index[found[i]].signature) ] ]
    IN SortBySimilarity(results)

\* querySimilar(sig)
querySimilar(sig) ==
    /\ lastCall' = CallOf("querySimilar", 0, sig.fingerprint, KeyAt(sig.fingerprint),
                          QuerySimilar(sig))
    /\ UNCHANGED <<index, buckets, lOthers>>

LshInit == VerifierIdle /\ PassiveIdle /\ LshIdle /\ ApiIdle /\ ControllerIdle

\* The subtrees that are indexed: distinct ones, two of them alike enough to
\* share buckets, and two with the same features.
Indexed == {"text", "leaf", "leaf2", "list", "menu"}

LshNext ==
    \/ \E k \in Keys, e \in Indexed : addToIndex(k, Sig[e])
    \/ \E e \in Indexed : removeFromIndex(Sig[e].fingerprint)
    \/ clearIndex
    \/ \E e \in Indexed : querySimilar(Sig[e])

LshSpec == LshInit /\ [][LshNext]_vars

\* The subtrees whose features repeat: the same calls on the index, made with
\* the signatures of subtrees that have the same shingles.
Repeating == {"leaf", "leaf2", "ul6", "ul7"}

SignatureNext ==
    \/ \E k \in Keys, e \in Repeating : addToIndex(k, Sig[e])
    \/ \E e \in Repeating : removeFromIndex(Sig[e].fingerprint)
    \/ clearIndex
    \/ \E e \in Repeating : querySimilar(Sig[e])

SignatureSpec == LshInit /\ [][SignatureNext]_vars

\* The subtrees that are ranked: a UL with one LI, and two that each share
\* bands with it, the DIV around one LI in earlier bands than the menu, which
\* is the more similar one.
Ranked == {"list", "menu", "wrap"}

RankingNext ==
    \/ \E k \in Keys, e \in Ranked : addToIndex(k, Sig[e])
    \/ \E e \in Ranked : removeFromIndex(Sig[e].fingerprint)
    \/ clearIndex
    \/ \E e \in Ranked : querySimilar(Sig[e])

RankingSpec == LshInit /\ [][RankingNext]_vars

\* C10: immediately after addToIndex(K, sig), for a signature produced by
\* signature(), querySimilar(sig) returns a list with an entry whose key is K,
\* whose fingerprint is sig.fingerprint and whose similarity is 1, whatever
\* the index held before.
C10_AddedIsFound ==
    lastCall.op = "addToIndex" =>
        \A e \in Elements :
            Sig[e].fingerprint = lastCall.fingerprint =>
                \E i \in DOMAIN QuerySimilar(Sig[e]) :
                    LET r == QuerySimilar(Sig[e])[i] IN
                    /\ r.key = lastCall.key
                    /\ r.fingerprint = lastCall.fingerprint
                    /\ r.similarity[1] = r.similarity[2]

\* A signature was added under a key while the index held the same
\* fingerprint under another key, next to other entries.
C10_Witness ==
    /\ lastCall.op = "addToIndex"
    /\ lastCall.had # 0 /\ lastCall.had # lastCall.key
    /\ Cardinality(DOMAIN index) >= 3

\* The fingerprints listed in band b's bucket for hash h.
BucketOf(b, h) ==
    IF h \in DOMAIN buckets[b] THEN { buckets[b][h][i] : i \in DOMAIN buckets[b][h] }
    ELSE {}

\* The band hashes of the signatures that are used: <<subtree, band, hash>>.
BandHashes ==
    { <<e, b, bandHash(Sig[e].minhash, b)>> : e \in Elements, b \in 0..(NumBands - 1) }

\* The hash of band b of the vector signature() gives subtree e.
BandHashOf(e, b) == (CHOOSE t \in BandHashes : t[1] = e /\ t[2] = b)[3]

\* C29: after any sequence of addToIndex, removeFromIndex and clearIndex calls
\* the band buckets and the entry map agree: a fingerprint is listed in band
\* b's bucket for hash h exactly when the index holds an entry for it whose
\* vector hashes to h in band b (and it is listed once). A fingerprint that was
\* removed is in no bucket, and querySimilar returns indexed fingerprints only;
\* removing a fingerprint that is not indexed changes neither the entries nor
\* the buckets; clearIndex leaves no entry and every band empty.
C29_BucketsAgreeWithIndex ==
    /\ [](/\ \A fp \in DOMAIN index :
                \E e \in Elements : index[fp].signature = Sig[e] /\ fp = Sig[e].fingerprint
          /\ \A b \in 0..(NumBands - 1) :
                /\ \A e \in Elements :
                      { h \in DOMAIN buckets[b] : Sig[e].fingerprint \in BucketOf(b, h) } =
                         IF Sig[e].fingerprint \in DOMAIN index
                         THEN {BandHashOf(e, b)} ELSE {}
                /\ \A h \in DOMAIN buckets[b] :
                      /\ BucketOf(b, h) \subseteq DOMAIN index
                      /\ Cardinality(BucketOf(b, h)) = Len(buckets[b][h])
          /\ lastCall.op = "removeFromIndex" =>
                /\ lastCall.fingerprint \notin DOMAIN index
                /\ \A b \in 0..(NumBands - 1) : \A h \in DOMAIN buckets[b] :
                      lastCall.fingerprint \notin BucketOf(b, h)
          /\ lastCall.op = "querySimilar" =>
                \A i \in DOMAIN lastCall.ret :
                   lastCall.ret[i].fingerprint \in DOMAIN index
          /\ lastCall.op = "clearIndex" =>
                /\ index = << >>
                /\ \A b \in 0..(NumBands - 1) : buckets[b] = << >>)
    /\ [][ (lastCall'.op = "removeFromIndex" /\ lastCall'.fingerprint \notin DOMAIN index)
              => (index' = index /\ buckets' = buckets) ]_vars

\* A fingerprint has just been removed that shared a bucket with another one,
\* which is still listed there.
C29_Witness ==
    /\ lastCall.op = "removeFromIndex" /\ lastCall.had # 0
    /\ \E e \in Elements : \E b \in 0..(NumBands - 1) :
          /\ Sig[e].fingerprint = lastCall.fingerprint
          /\ BucketOf(b, BandHashOf(e, b)) # {}

\* The subtree whose signature has the fingerprint fp.
ElementOf(fp) == CHOOSE e \in Elements : Sig[e].fingerprint = fp

\* C30: querySimilar(sig) returns exactly the indexed entries whose vector has
\* the same band hash as sig in at least one band, each once, with the key
\* stored for it and its similarity to sig, ordered by similarity
\* non-increasing; an indexed entry whose vector equals sig's is returned
\* (with similarity 1); and the call changes neither the entries nor the
\* buckets.
C30_QueryReturnsBandMates ==
    /\ [](lastCall.op = "querySimilar" =>
            LET q == ElementOf(lastCall.fingerprint)
                ret == lastCall.ret
                mates == { fp \in DOMAIN index :
                             \E b \in 0..(NumBands - 1) :
                                BandHashOf(ElementOf(fp), b) = BandHashOf(q, b) }
            IN
            /\ { ret[i].fingerprint : i \in DOMAIN ret } = mates
            /\ Cardinality(mates) = Len(ret)
            /\ \A i \in DOMAIN ret :
                  /\ ret[i].key = index[ret[i].fingerprint].key
                  /\ ret[i].similarity =
                        similarity(Sig[q], index[ret[i].fingerprint].signature)
            /\ \A i, j \in DOMAIN ret :
                  i < j => ret[i].similarity[1] * ret[j].similarity[2] >=
                           ret[j].similarity[1] * ret[i].similarity[2]
            /\ lastCall.fingerprint \in DOMAIN index =>
                  \E i \in DOMAIN ret :
                     /\ ret[i].fingerprint = lastCall.fingerprint
                     /\ ret[i].similarity[1] = ret[i].similarity[2])
    /\ [][ lastCall'.op = "querySimilar" => (index' = index /\ buckets' = buckets) ]_vars

\* A query for a signature that is not indexed returned the two entries that
\* share bands with it, the more similar one first although the other one is
\* met in an earlier band.
C30_Witness ==
    /\ lastCall.op = "querySimilar"
    /\ lastCall.fingerprint \notin DOMAIN index
    /\ Len(lastCall.ret) = 2
    /\ lastCall.ret[1].similarity # lastCall.ret[2].similarity
    /\ \E b, c \in 0..(NumBands - 1) :
          /\ b < c
          /\ lastCall.ret[2].fingerprint \in
                BucketOf(b, BandHashOf(ElementOf(lastCall.fingerprint), b))
          /\ \A a \in 0..(c - 1) :
                lastCall.ret[1].fingerprint \notin
                   BucketOf(a, BandHashOf(ElementOf(lastCall.fingerprint), a))


\* The vector positions at which two signatures hold equal values.
AgreeAt(a, b) == { i \in 0..(NumHashes - 1) : a.minhash[i] = b.minhash[i] }

\* C11: for all signatures a and b, similarity(a, a) = 1, similarity(a, b) =
\* similarity(b, a) and 0 <= similarity(a, b) <= 1, the similarity being the
\* fraction of vector positions at which the two MinHash vectors agree; the
\* similarities querySimilar() reports are these.
C11_SimilarityLaws ==
    /\ \A a, b \in Elements :
          LET sab == similarity(Sig[a], Sig[b]) IN
          /\ similarity(Sig[a], Sig[a])[1] = similarity(Sig[a], Sig[a])[2]
          /\ sab = similarity(Sig[b], Sig[a])
          /\ sab[2] > 0 /\ 0 <= sab[1] /\ sab[1] <= sab[2]
          /\ sab = <<Cardinality(AgreeAt(Sig[a], Sig[b])), NumHashes>>
    /\ lastCall.op = "querySimilar" =>
          \A i \in DOMAIN lastCall.ret :
              LET r == lastCall.ret[i]
                  stored == index[r.fingerprint].signature
              IN /\ \A e \in Elements :
                       Sig[e].fingerprint = lastCall.fingerprint =>
                           r.similarity = similarity(stored, Sig[e])
                 /\ 0 <= r.similarity[1] /\ r.similarity[1] <= r.similarity[2]
                 /\ r.fingerprint = lastCall.fingerprint =>
                       r.similarity[1] = r.similarity[2]

\* A query returned the queried signature itself with similarity 1 and another
\* entry with a similarity strictly between 0 and 1.
C11_Witness ==
    /\ lastCall.op = "querySimilar"
    /\ \E i, j \in DOMAIN lastCall.ret :
          /\ lastCall.ret[i].fingerprint = lastCall.fingerprint
          /\ lastCall.ret[i].similarity[1] = lastCall.ret[i].similarity[2]
          /\ lastCall.ret[j].similarity[1] > 0
          /\ lastCall.ret[j].similarity[1] < lastCall.ret[j].similarity[2]


Round53(ds) ==
    LET Norm(xs) ==
            LET n == Len(xs)
                x == SubSeq(xs, 1, n)
                c[i \in 0..n] == IF i = 0 THEN 0 ELSE (x[i] + c[i - 1]) \div 2^13
            IN  SubSeq([i \in 1..(n + 1) |->
                           IF i <= n THEN (x[i] + c[i - 1]) % 2^13 ELSE c[n]],
                       1, n + 1)
        \* nd without its d lowest bits, rounded to nearest, ties to even
        Cut(nd, d) ==
            LET Bit(k) == (nd[(k \div 13) + 1] \div 2^(k % 13)) % 2
                up == Bit(d - 1) = 1
                      /\ (Bit(d) = 1 \/ \E k \in 0..(d - 2) : Bit(k) = 1)
                kept(i) == IF 13 * i <= d THEN 0
                           ELSE IF 13 * (i - 1) >= d THEN nd[i]
                           ELSE (nd[i] \div 2^(d - 13 * (i - 1)))
                                    * 2^(d - 13 * (i - 1))
            IN  Norm([i \in 1..Len(nd) |->
                         IF i = (d \div 13) + 1 /\ up THEN kept(i) + 2^(d % 13)
                         ELSE kept(i)])
        \* the number of bits of v
        Width(v) == CHOOSE b \in 1..13 : 2^(b - 1) <= v /\ v < 2^b
        \* t is the highest limb of nd that is not 0
        Place(nd, t) ==
            IF 13 * (t - 1) + Width(nd[t]) <= 53 THEN nd \o << 0 >>
            ELSE Cut(nd, 13 * (t - 1) + Width(nd[t]) - 53)
        Top(nd) ==
            IF \A i \in 1..Len(nd) : nd[i] = 0 THEN nd \o << 0 >>
            ELSE Place(nd, CHOOSE i \in 1..Len(nd) :
                               nd[i] # 0 /\ \A j \in (i + 1)..Len(nd) : nd[j] = 0)
    IN  Top(Norm(ds))

\* The Number nearest to n / d: what the literal n/d denotes (0.25 is
\* Dbl(25, 100)), and what the division n / d of two small integers returns.
Dbl(n, d) ==
    LET rem[i \in 1..11] == IF i = 11 THEN n % d ELSE (rem[i + 1] * 2^13) % d
        q == [i \in 1..11 |->
                 IF i = 11 THEN n \div d ELSE (rem[i + 1] * 2^13) \div d]
        sticky == [q EXCEPT ![1] = IF rem[1] # 0 /\ q[1] % 2 = 0 THEN q[1] + 1
                                   ELSE q[1]]
    IN  SubSeq(Round53(sticky), 6, 11)

\* a >= b
fge(a, b) ==
    a = b \/ \E i \in 1..6 : a[i] > b[i] /\ \A j \in (i + 1)..6 : a[j] = b[j]

\* a + b
fadd(a, b) == SubSeq(Round53([i \in 1..6 |-> a[i] + b[i]]), 1, 6)

\* a * b
fmul(a, b) ==
    LET D(x, i) == IF i \in 1..6 THEN x[i] ELSE 0
    IN  SubSeq(Round53([k \in 1..11 |->
                   D(a, 1) * D(b, k) + D(a, 2) * D(b, k - 1) + D(a, 3) * D(b, k - 2)
                   + D(a, 4) * D(b, k - 3) + D(a, 5) * D(b, k - 4)
                   + D(a, 6) * D(b, k - 5)]), 6, 11)

\* An array left in the order it had.
unsorted(s, key) == s

\* Array.prototype.sort((a, b) => b[key] - a[key]): a goes before b when its
\* key is the greater one; the sort is stable.
sort(s, key) ==
    CHOOSE sorted \in
        { LET n == Len(v)
              rank == [i \in 1..n |-> 1 + Cardinality({j \in 1..n :
                          \/ ~fge(v[i][key], v[j][key])
                          \/ j < i /\ v[i][key] = v[j][key]})]
          IN  [k \in 1..n |-> v[CHOOSE i \in 1..n : rank[i] = k]] : v \in {s} } :
        TRUE

\* ---- detect() ----
\* The document is a sequence of element nodes in document order; the position
\* of a node is its path (getElementPath: the chain of tags and child indices
\* from the root, one path per node).  A node records what the controller
\* reads from it:
\*   id                   the identity of the element
\*   role, ariaLive       getAttribute('role'), hasAttribute('aria-live')
\*   scrollable           scrollHeight > clientHeight and overflow-y auto/scroll
\*   repeated             hasRepeatedChildren(el)
\*   children             el.children.length
\*   nearInput            el or its parent contains an input or a textarea
\*   chatInput            tagName of the input findComponents settles on for a
\*                        chat ("DIV" is a contenteditable), "none" if none
\*   selector[pattern]    which of the pattern's selectors match the element
\*                        (their positions in the selector list)
\*   hits[pattern]        how many of the pattern's strong, medium, placeholder,
\*                        button and negative phrases the text of el contains
\* None of the elements belongs to the controller's own panel.

\* const PATTERNS, for the patterns the modelled documents are scanned for:
\* the weighted rules, the number of selectors, scanRepeatedChildren.
PATTERNS ==
    [ chat |-> [ selectors |-> 5,
                 rules |-> << <<"scrollable", 3>>, <<"has-input-nearby", 3>>,
                              <<"repeated-children", 2>>, <<"aria-live", 2>> >>,
                 scanRepeatedChildren |-> TRUE ],
      feed |-> [ selectors |-> 3,
                 rules |-> << <<"scrollable", 3>>, <<"repeated-children", 4>> >>,
                 scanRepeatedChildren |-> TRUE ] ]

\* scoreStructural(el, pattern): the weight of the rules that hold over
\* the weight of all rules; checkRule is the table of the rules.
scoreStructural(node, pattern) ==
    LET patternRules == IF pattern \in DOMAIN PATTERNS
                        THEN PATTERNS[pattern].rules ELSE << >>
        checkRule(rule) ==
            CASE rule = "scrollable" -> node.scrollable
              [] rule = "has-input-nearby" -> node.nearInput
              [] rule = "repeated-children" -> node.repeated
              [] rule = "aria-live" -> node.ariaLive
              [] OTHER -> FALSE
        sum[i \in 0..Len(patternRules)] ==
            IF i = 0 THEN <<0, 0>>
            ELSE << sum[i - 1][1] + (IF checkRule(patternRules[i][1])
                                     THEN patternRules[i][2] ELSE 0),
                    sum[i - 1][2] + patternRules[i][2] >>
        held == sum[Len(patternRules)][1]
        total == sum[Len(patternRules)][2]
    IN  IF total > 0 THEN Dbl(held, total) ELSE Dbl(0, 1)

\* A scan that keeps no set of checked paths: a node is visited once for
\* each selector that matches it and once more for its repeated children.
scanStructuralRevisiting(document, pattern) ==
    LET known == pattern \in DOMAIN PATTERNS
        paths == [i \in 1..Len(document) |-> i]
        bySelector[k \in 0..(IF known THEN PATTERNS[pattern].selectors ELSE 0)] ==
            IF k = 0 THEN << >>
            ELSE bySelector[k - 1] \o
                 SelectSeq(paths, LAMBDA q : k \in document[q].selector[pattern])
        first == IF known THEN bySelector[PATTERNS[pattern].selectors] ELSE << >>
        second == IF known /\ PATTERNS[pattern].scanRepeatedChildren
                  THEN SelectSeq(paths, LAMBDA q : document[q].repeated)
                  ELSE << >>
        scored(visited) ==
            [i \in 1..Len(visited) |->
                [ el |-> document[visited[i]],
                  score |-> scoreStructural(document[visited[i]], pattern),
                  path |-> visited[i] ]]
        best(sorted) ==
            SubSeq(sorted, 1, IF Len(sorted) < 10 THEN Len(sorted) ELSE 10)
    IN  best(sort(SelectSeq(scored(first \o second),
                            LAMBDA c : ~fge(Dbl(2, 10), c.score)),
                  "score"))

\* scanStructural(pattern): the nodes the selectors match, selector by
\* selector, then (scanRepeatedChildren) every node with repeated children;
\* each path once; those scoring above 0.2; by score, the best ten.
scanStructural(document, pattern) ==
    LET known == pattern \in DOMAIN PATTERNS
        paths == [i \in 1..Len(document) |-> i]
        checked(visited) == {visited[i] : i \in 1..Len(visited)}
        bySelector[k \in 0..(IF known THEN PATTERNS[pattern].selectors ELSE 0)] ==
            IF k = 0 THEN << >>
            ELSE bySelector[k - 1] \o
                 SelectSeq(paths, LAMBDA q :
                     /\ k \in document[q].selector[pattern]
                     /\ q \notin checked(bySelector[k - 1]))
        first == IF known THEN bySelector[PATTERNS[pattern].selectors] ELSE << >>
        second == IF known /\ PATTERNS[pattern].scanRepeatedChildren
                  THEN SelectSeq(paths, LAMBDA q :
                           document[q].repeated /\ q \notin checked(first))
                  ELSE << >>
        scored(visited) ==
            [i \in 1..Len(visited) |->
                [ el |-> document[visited[i]],
                  score |-> scoreStructural(document[visited[i]], pattern),
                  path |-> visited[i] ]]
        best(sorted) ==
            SubSeq(sorted, 1, IF Len(sorted) < 10 THEN Len(sorted) ELSE 10)
    IN  best(sort(SelectSeq(scored(first \o second),
                            LAMBDA c : ~fge(Dbl(2, 10), c.score)),
                  "score"))

\* PhrasalScanner.score(el, pattern).score: 0.35 for each strong phrase,
\* 0.15 for each medium one, 0.25 for each placeholder, 0.2 for each button,
\* then 0.25 off for each negative phrase; clamped to [0, 1].
score(node, pattern) ==
    LET h == node.hits[pattern]
        up == h[1] + h[2] + h[3] + h[4]
        plus[k \in 0..up] ==
            IF k = 0 THEN Dbl(0, 1)
            ELSE fadd(plus[k - 1],
                      IF k <= h[1] THEN Dbl(35, 100)
                      ELSE IF k <= h[1] + h[2] THEN Dbl(15, 100)
                      ELSE IF k <= h[1] + h[2] + h[3] THEN Dbl(25, 100)
                      ELSE Dbl(2, 10))
        \* << >> stands for a sum below zero, which Math.max(0, .) turns into 0
        minus[k \in 0..h[5]] ==
            IF k = 0 THEN plus[up]
            ELSE LET x == minus[k - 1]
                 IN  IF x = << >> \/ ~fge(x, Dbl(25, 100)) THEN << >>
                     ELSE SubSeq(Round53([i \in 1..6 |-> x[i] - Dbl(25, 100)[i]]),
                                 1, 6)
        clamped(sum) == IF sum = << >> THEN Dbl(0, 1)
                        ELSE IF fge(sum, Dbl(1, 1)) THEN Dbl(1, 1)
                        ELSE sum
    IN  IF pattern \notin DOMAIN node.hits THEN Dbl(0, 1)
        ELSE clamped(minus[h[5]])

\* findComponents(el, pattern)
findComponents(node, pattern) ==
    CASE pattern = "chat" ->
             [ container |-> node.id, input |-> node.chatInput ]
      [] pattern = "feed" ->
             [ container |-> node.id, items |-> node.children ]
      [] OTHER -> << >>

\* The evidence detect() gathers for a candidate: its structural score, the
\* phrasal score, checkSemantic(el, pattern) and
\* checkBehavioral(el, pattern, components).
evidence(candidate, pattern, components) ==
    LET node == candidate.el
        checkSemantic ==
            CASE pattern = "chat" -> node.role = "log" \/ node.ariaLive
              [] pattern = "feed" -> node.role = "feed"
              [] OTHER -> FALSE
        checkBehavioral ==
            CASE pattern = "chat" ->
                     LET hasInput == components.input \in {"INPUT", "TEXTAREA"}
                         hasContainer == node.children > 0
                     IN  IF hasInput /\ hasContainer THEN Dbl(1, 1)
                         ELSE IF hasContainer THEN Dbl(5, 10) ELSE Dbl(0, 1)
              [] pattern = "feed" ->
                     IF components.items > 2 THEN Dbl(1, 1) ELSE Dbl(0, 1)
              [] OTHER -> Dbl(0, 1)
    IN  [ structural |-> candidate.score,
          phrasal |-> score(node, pattern),
          semantic |-> IF checkSemantic THEN Dbl(1, 1) ELSE Dbl(0, 1),
          behavioral |-> checkBehavioral ]

\* A weight table that gives each of the four signals 0.25.
weightsEqual ==
    [ structural |-> Dbl(25, 100), phrasal |-> Dbl(25, 100),
      semantic |-> Dbl(25, 100), behavioral |-> Dbl(25, 100) ]

\* The four weights of detect().
weights ==
    [ structural |-> Dbl(25, 100), phrasal |-> Dbl(30, 100),
      semantic |-> Dbl(15, 100), behavioral |-> Dbl(30, 100) ]

\* let confidence = candidate.score * 0.25; confidence += ... (three times)
confidence(e) ==
    fadd(fadd(fadd(fmul(e.structural, weights.structural),
                   fmul(e.phrasal, weights.phrasal)),
              fmul(e.semantic, weights.semantic)),
         fmul(e.behavioral, weights.behavioral))

\* A threshold table whose BEHAVIORAL entry is 0.55.
thresholdsRaised ==
    [ STRUCTURAL |-> Dbl(2, 10), SEMANTIC |-> Dbl(35, 100),
      BEHAVIORAL |-> Dbl(55, 100), VERIFIED |-> Dbl(7, 10) ]

\* const thresholds
thresholds ==
    [ STRUCTURAL |-> Dbl(2, 10), SEMANTIC |-> Dbl(35, 100),
      BEHAVIORAL |-> Dbl(5, 10), VERIFIED |-> Dbl(7, 10) ]

\* The documents detect() is run on: one or two of five elements.
\*   log       a scrollable [role=log] live region of three repeated messages
\*             next to an input; its text has a strong, a medium and a button
\*             phrase of a chat
\*   list      a list of two repeated items matched by a feed selector, with a
\*             strong phrase of a feed
\*   pane      a scrollable pane of four repeated children next to a
\*             contenteditable, matched by [class*="chat"]
\*   status    an empty [aria-live] region next to an input, with three
\*             strong, one button and two negative phrases of a chat
\*   timeline  a scrollable [role=feed] of five repeated posts, matched by
\*             [class*="timeline"]
Pages ==
    LET log == [ id |-> 1, role |-> "log", ariaLive |-> TRUE, scrollable |-> TRUE,
                 repeated |-> TRUE, children |-> 3, nearInput |-> TRUE,
                 chatInput |-> "INPUT",
                 selector |-> [chat |-> {1, 2}, feed |-> {}],
                 hits |-> [chat |-> <<1, 1, 0, 1, 0>>, feed |-> <<0, 0, 0, 0, 0>>] ]
        list == [ id |-> 2, role |-> "none", ariaLive |-> FALSE,
                  scrollable |-> FALSE, repeated |-> TRUE, children |-> 2,
                  nearInput |-> FALSE, chatInput |-> "none",
                  selector |-> [chat |-> {}, feed |-> {1}],
                  hits |-> [chat |-> <<0, 0, 0, 0, 0>>, feed |-> <<1, 0, 0, 0, 0>>] ]
        pane == [ id |-> 3, role |-> "none", ariaLive |-> FALSE,
                  scrollable |-> TRUE, repeated |-> TRUE, children |-> 4,
                  nearInput |-> TRUE, chatInput |-> "DIV",
                  selector |-> [chat |-> {4}, feed |-> {}],
                  hits |-> [chat |-> <<1, 1, 0, 0, 0>>, feed |-> <<0, 1, 0, 0, 0>>] ]
        status == [ id |-> 4, role |-> "none", ariaLive |-> TRUE,
                    scrollable |-> FALSE, repeated |-> FALSE, children |-> 0,
                    nearInput |-> TRUE, chatInput |-> "INPUT",
                    selector |-> [chat |-> {2}, feed |-> {}],
                    hits |-> [chat |-> <<3, 0, 0, 1, 2>>, feed |-> <<0, 0, 0, 0, 0>>] ]
        timeline == [ id |-> 5, role |-> "feed", ariaLive |-> FALSE,
                      scrollable |-> TRUE, repeated |-> TRUE, children |-> 5,
                      nearInput |-> FALSE, chatInput |-> "none",
                      selector |-> [chat |-> {}, feed |-> {2}],
                      hits |-> [chat |-> <<0, 1, 0, 0, 0>>, feed |-> <<2, 2, 0, 0, 0>>] ]
        all == {log, list, pane, status, timeline}
    IN  {<<x>> : x \in all} \cup ({<<x, y>> : x, y \in all} \ {<<x, x>> : x \in all})

\* The loop of detect() up to the comparison with the threshold: each
\* candidate with its components, its evidence and its confidence, for every
\* document of Pages and for the patterns of PATTERNS and one other name.
evaluated ==
    [ document \in Pages, pattern \in {"chat", "feed", "tabs"} |->
      LET scored(candidate, components, ev) ==
              [ path |-> candidate.path,
                el |-> candidate.el,
                confidence |-> confidence(ev),
                evidence |-> ev,
                components |-> components ]
          gathered(candidate, components) ==
              scored(candidate, components,
                     evidence(candidate, pattern, components))
          each(candidates) ==
              [i \in 1..Len(candidates) |->
                  gathered(candidates[i],
                           findComponents(candidates[i].el, pattern))]
      IN  each(scanStructural(document, pattern)) ]

\* The results detect() pushes, in the order of the candidates.
\* thresholds[guarantee] is undefined for a guarantee that is not one of the
\* four, and no confidence is >= undefined.
accepted(pattern, guarantee) ==
    LET results(pushed) ==
            [i \in 1..Len(pushed) |->
                [ path |-> pushed[i].path,
                  el |-> pushed[i].el,
                  patternName |-> pattern,
                  confidence |-> pushed[i].confidence,
                  guarantee |-> guarantee,
                  evidence |-> pushed[i].evidence,
                  components |-> pushed[i].components ]]
    IN  results(SelectSeq(evaluated[page, pattern], LAMBDA r :
                    /\ guarantee \in DOMAIN thresholds
                    /\ fge(r.confidence, thresholds[guarantee])))

\* A registry that holds the entries of one call's results and no other.
registerOnly(results, pattern) ==
    LET at == [q \in {results[i].path : i \in 1..Len(results)} |->
                  CHOOSE i \in 1..Len(results) : results[i].path = q]
    IN  [q \in DOMAIN at |-> [ components |-> results[at[q]].components,
                               patternName |-> pattern,
                               el |-> results[at[q]].el ]]

\* this.detected.set(path, { patternName, components, el }) for each pushed
\* result; the candidates of one scan have distinct paths.
register(results, pattern) ==
    LET at == [q \in {results[i].path : i \in 1..Len(results)} |->
                  CHOOSE i \in 1..Len(results) : results[i].path = q]
    IN  [q \in DOMAIN detected \cup DOMAIN at |->
            IF q \in DOMAIN at
            THEN [ components |-> results[at[q]].components,
                   patternName |-> pattern,
                   el |-> results[at[q]].el ]
            ELSE detected[q]]

\* detect(patternName, guarantee): every accepted candidate is registered
\* under its path; the results are returned sorted by confidence.
detect(pattern, guarantee) ==
    LET returns(results) ==
            /\ detected' = register(results, pattern)
            /\ returned' = [ op |-> "detect", patternName |-> pattern,
                             guarantee |-> guarantee,
                             results |-> sort(results, "confidence") ]
    IN  /\ returns(accepted(pattern, guarantee))
        /\ UNCHANGED <<page, edits, snapshots, lastDiff, captures>>
        /\ UNCHANGED cOthers

\* A new controller on one of the documents.
DetectInit ==
    /\ VerifierIdle /\ PassiveIdle /\ LshIdle /\ ApiIdle
    /\ page \in Pages
    /\ edits = 0
    /\ detected = << >>
    /\ snapshots = << >>
    /\ lastDiff = [kind |-> "null"]
    /\ captures = 0
    /\ returned = [op |-> "none"]

\* detect() is called with a pattern of PATTERNS or another name, and with one of the four
\* guarantees or another string.
DetectNext ==
    \E pattern \in {"chat", "feed", "tabs"} :
        \E guarantee \in {"STRUCTURAL", "SEMANTIC", "BEHAVIORAL", "VERIFIED",
                          "PROVEN"} :
            detect(pattern, guarantee)

DetectSpec == DetectInit /\ [][DetectNext]_vars

\* C13: the list one detect() call returns is ordered by confidence,
\* non-increasing: for every pair of positions i < j the confidence at i is
\* greater than or equal to the confidence at j.
C13_ResultsSortedByConfidence ==
    returned.op = "detect" =>
        \A i, j \in 1..Len(returned.results) :
            i < j => fge(returned.results[i].confidence,
                         returned.results[j].confidence)

\* A call whose results were pushed in another order than the one returned.
C13_Witness ==
    /\ returned.op = "detect"
    /\ Len(returned.results) >= 2
    /\ returned.results # accepted(returned.patternName, returned.guarantee)
    /\ returned.results[1].confidence # returned.results[2].confidence

\* C14: detect(pattern, guarantee) returns a result for a scanned candidate
\* if and only if the candidate's confidence is >= the threshold of the
\* requested guarantee (STRUCTURAL 0.2, SEMANTIC 0.35, BEHAVIORAL 0.5,
\* VERIFIED 0.7); and on the same document the paths returned for a stricter
\* guarantee are a subset of those returned for a laxer guarantee.
C14_AcceptedIffThreshold ==
    [][ LET order == << "STRUCTURAL", "SEMANTIC", "BEHAVIORAL", "VERIFIED" >>
            limit == << Dbl(2, 10), Dbl(35, 100), Dbl(5, 10), Dbl(7, 10) >>
            four == { order[k] : k \in 1..4 }
            rank(g) == CHOOSE k \in 1..4 : order[k] = g
            paths(r) == { r.results[i].path : i \in 1..Len(r.results) }
            scanned == evaluated[page, returned'.patternName]
        IN  (returned'.op = "detect" /\ returned'.guarantee \in four) =>
              /\ \A i \in 1..Len(scanned) :
                     scanned[i].path \in paths(returned')
                     <=> fge(scanned[i].confidence,
                             limit[rank(returned'.guarantee)])
              /\ paths(returned') \subseteq
                     { scanned[i].path : i \in 1..Len(scanned) }
              /\ ( /\ returned.op = "detect"
                   /\ returned.guarantee \in four
                   /\ returned.patternName = returned'.patternName
                   /\ rank(returned'.guarantee) >= rank(returned.guarantee) )
                 => paths(returned') \subseteq paths(returned) ]_vars

\* A BEHAVIORAL call that returned a candidate whose confidence is exactly
\* 0.5 and rejected another scanned candidate.
C14_Witness ==
    /\ returned.op = "detect"
    /\ returned.guarantee = "BEHAVIORAL"
    /\ \E i \in 1..Len(returned.results) :
           returned.results[i].confidence = Dbl(5, 10)
    /\ \E i \in 1..Len(evaluated[page, returned.patternName]) :
           \A k \in 1..Len(returned.results) :
               returned.results[k].path
                   # evaluated[page, returned.patternName][i].path

\* C15: the confidence of a candidate is structural*0.25 + phrasal*0.30 +
\* semantic*0.15 + behavioral*0.30, so it lies in [0,1] when the four signals
\* do; a candidate with structural 1.0, phrasal 0, semantic 0 and behavioral
\* 1.0 has confidence 0.55 and is returned by detect() at guarantee
\* BEHAVIORAL but not at guarantee VERIFIED.
C15_ConfidenceFormula ==
    returned.op = "detect" =>
        LET scanned == evaluated[page, returned.patternName]
            unit(x) == fge(x, Dbl(0, 1)) /\ fge(Dbl(1, 1), x)
            returnedAt(q) == \E k \in 1..Len(returned.results) :
                                returned.results[k].path = q
        IN  \A i \in 1..Len(scanned) :
                LET e == scanned[i].evidence
                    c == scanned[i].confidence
                IN  /\ unit(e.structural) /\ unit(e.phrasal)
                    /\ unit(e.semantic) /\ unit(e.behavioral)
                    /\ c = fadd(fadd(fadd(fmul(e.structural, Dbl(25, 100)),
                                          fmul(e.phrasal, Dbl(30, 100))),
                                     fmul(e.semantic, Dbl(15, 100))),
                                fmul(e.behavioral, Dbl(30, 100)))
                    /\ unit(c)
                    /\ ( /\ e.structural = Dbl(1, 1) /\ e.phrasal = Dbl(0, 1)
                         /\ e.semantic = Dbl(0, 1) /\ e.behavioral = Dbl(1, 1) )
                       => /\ c = Dbl(55, 100)
                          /\ returned.guarantee = "BEHAVIORAL"
                                 => returnedAt(scanned[i].path)
                          /\ returned.guarantee = "VERIFIED"
                                 => ~returnedAt(scanned[i].path)

\* A BEHAVIORAL call that returned a candidate whose signals are 1.0, 0, 0
\* and 1.0, on a document where another candidate has confidence 1.
C15_Witness ==
    /\ returned.op = "detect"
    /\ returned.guarantee = "BEHAVIORAL"
    /\ \E k \in 1..Len(returned.results) :
           /\ returned.results[k].evidence =
                  [ structural |-> Dbl(1, 1), phrasal |-> Dbl(0, 1),
                    semantic |-> Dbl(0, 1), behavioral |-> Dbl(1, 1) ]
           /\ returned.results[k].confidence = Dbl(55, 100)
    /\ \E k \in 1..Len(returned.results) :
           returned.results[k].confidence = Dbl(1, 1)

\* C20: after detect() returns, the registry maps the path of every returned
\* result to that call's { patternName, components, el }, replacing the
\* entry the path had; the entries of all other paths, the paths of
\* candidates rejected by the threshold included, are unchanged.
C20_RegistryFrame ==
    [][ returned'.op = "detect" =>
          LET results == returned'.results
              paths == { results[i].path : i \in 1..Len(results) }
          IN  /\ \A i \in 1..Len(results) :
                     /\ results[i].path \in DOMAIN detected'
                     /\ detected'[results[i].path] =
                            [ patternName |-> returned'.patternName,
                              components |-> results[i].components,
                              el |-> results[i].el ]
              /\ \A q \in (DOMAIN detected \cup DOMAIN detected') \ paths :
                     /\ q \in DOMAIN detected /\ q \in DOMAIN detected'
                     /\ detected'[q] = detected[q] ]_vars

\* A call that returned one path and rejected another: the rejected path
\* keeps the entry an earlier call for another pattern gave it, and every
\* guarantee at which that call accepts the rejected path accepts the
\* returned path too, so the returned path's entry was replaced.
C20_Witness ==
    /\ returned.op = "detect"
    /\ \E i \in 1..Len(returned.results) :
       \E k \in 1..Len(evaluated[page, returned.patternName]) :
           LET q == returned.results[i].path
               rejected == evaluated[page, returned.patternName][k].path
           IN  /\ \A j \in 1..Len(returned.results) :
                      returned.results[j].path # rejected
               /\ rejected \in DOMAIN detected
               /\ detected[rejected].patternName # returned.patternName
               /\ detected[q].patternName = returned.patternName
               /\ LET other == evaluated[page, detected[rejected].patternName]
                  IN  \E a, b \in 1..Len(other) :
                          /\ other[a].path = q
                          /\ other[b].path = rejected
                          /\ \A g \in DOMAIN thresholds :
                                 fge(other[b].confidence, thresholds[g])
                                     => fge(other[a].confidence, thresholds[g])

\* ---- scanStructural() on crowded documents ----
\* The longest document scanned.
MaxNodes == 16

\* Eight kinds of element, by what the scan reads from them:
\*   1  a scrollable [role=log][aria-live] of repeated messages near an input
\*   2  a scrollable [class*="message"] block
\*   3  a [class*="feed"] list of repeated items
\*   4  a [class*="chat"] box of repeated children near an input
\*   5  a scrollable [class*="message chat"] pane near an input
\*   6  a scrollable wrapper near an input that no selector matches
\*   7  an [aria-live][class*="conversation"] note near an input
\*   8  a scrollable [class*="posts"] block of repeated children
Kinds ==
    LET kind(live, scroll, rep, near, chat, feed) ==
            [ id |-> 0, role |-> "none", ariaLive |-> live, scrollable |-> scroll,
              repeated |-> rep, children |-> IF rep THEN 2 ELSE 0,
              nearInput |-> near, chatInput |-> "none",
              selector |-> [chat |-> chat, feed |-> feed],
              hits |-> [chat |-> <<0, 0, 0, 0, 0>>, feed |-> <<0, 0, 0, 0, 0>>] ]
    IN  << [kind(TRUE, TRUE, TRUE, TRUE, {1, 2}, {}) EXCEPT !.role = "log"],
           kind(FALSE, TRUE, FALSE, FALSE, {3}, {}),
           kind(FALSE, FALSE, TRUE, FALSE, {}, {1}),
           kind(FALSE, FALSE, TRUE, TRUE, {4}, {}),
           kind(FALSE, TRUE, FALSE, TRUE, {3, 4}, {}),
           kind(FALSE, TRUE, FALSE, TRUE, {}, {}),
           kind(TRUE, FALSE, FALSE, TRUE, {2, 5}, {}),
           kind(FALSE, TRUE, TRUE, FALSE, {}, {3}) >>

\* The documents scanStructural() is run on: up to MaxNodes elements, the
\* kinds in turn from any first kind on.
Layouts ==
    { [i \in 1..n |-> [Kinds[((i + r) % Len(Kinds)) + 1] EXCEPT !.id = i]] :
          n \in 1..MaxNodes, r \in 0..(Len(Kinds) - 1) }

\* scanStructural(patternName), called on the controller.
scan(pattern) ==
    /\ returned' = [ op |-> "scanStructural", patternName |-> pattern,
                     candidates |-> scanStructural(page, pattern) ]
    /\ UNCHANGED <<page, edits, detected, snapshots, lastDiff, captures>>
    /\ UNCHANGED cOthers

\* A new controller on one of the documents.
StructuralInit ==
    /\ VerifierIdle /\ PassiveIdle /\ LshIdle /\ ApiIdle
    /\ page \in Layouts
    /\ edits = 0
    /\ detected = << >>
    /\ snapshots = << >>
    /\ lastDiff = [kind |-> "null"]
    /\ captures = 0
    /\ returned = [op |-> "none"]

\* The scan is asked for a pattern of PATTERNS or for another name.
StructuralNext ==
    \E pattern \in {"chat", "feed", "tabs"} : scan(pattern)

StructuralSpec == StructuralInit /\ [][StructuralNext]_vars

\* The weight of the rules that hold for a node and the weight of all rules.
WeightOf(node, pattern) ==
    LET w(holds, weight) == IF holds THEN weight ELSE 0
    IN  CASE pattern = "chat" ->
                 << w(node.scrollable, 3) + w(node.nearInput, 3)
                    + w(node.repeated, 2) + w(node.ariaLive, 2), 3 + 3 + 2 + 2 >>
          [] pattern = "feed" ->
                 << w(node.scrollable, 3) + w(node.repeated, 4), 3 + 4 >>
          [] OTHER -> <<0, 1>>

\* The nodes a scan for the pattern looks at: those a selector matches and,
\* for chat and feed, those with repeated children.
LookedAt(pattern) ==
    { q \in 1..Len(page) :
          /\ pattern \in {"chat", "feed"}
          /\ page[q].selector[pattern] # {} \/ page[q].repeated }

\* C31: scanStructural(pattern) returns each node path at most once, each
\* candidate with the score (weight of the pattern's rules that hold) /
\* (weight of all its rules), only candidates scoring strictly above 0.2, at
\* most 10 of them, in non-increasing score order, and no candidate left out
\* scores higher than one returned; an unknown pattern gives no candidates.
C31_BestTenOncePerPath ==
    returned.op = "scanStructural" =>
        LET c == returned.candidates
            pattern == returned.patternName
            scoreOf(q) == Dbl(WeightOf(page[q], pattern)[1],
                              WeightOf(page[q], pattern)[2])
        IN  /\ pattern \notin {"chat", "feed"} => c = << >>
            /\ Len(c) <= 10
            /\ \A i \in 1..Len(c) :
                   /\ c[i].path \in LookedAt(pattern)
                   /\ c[i].el = page[c[i].path]
                   /\ c[i].score = scoreOf(c[i].path)
                   /\ ~fge(Dbl(2, 10), c[i].score)
            /\ \A i, j \in 1..Len(c) :
                   i < j => /\ c[i].path # c[j].path
                            /\ fge(c[i].score, c[j].score)
            /\ \A q \in LookedAt(pattern) :
                   (/\ ~fge(Dbl(2, 10), scoreOf(q))
                    /\ \A i \in 1..Len(c) : c[i].path # q)
                       => /\ Len(c) = 10
                          /\ \A i \in 1..Len(c) : fge(c[i].score, scoreOf(q))

\* A scan that returned ten candidates and left out one scoring above 0.2,
\* on a document where a node matched by two selectors was returned and a
\* node scoring exactly 0.2 was not.
C31_Witness ==
    /\ returned.op = "scanStructural"
    /\ Len(returned.candidates) = 10
    /\ \E q \in LookedAt(returned.patternName) :
           /\ ~fge(Dbl(2, 10), scoreStructural(page[q], returned.patternName))
           /\ \A i \in 1..10 : returned.candidates[i].path # q
    /\ \E i \in 1..10 :
           Cardinality(returned.candidates[i].el.selector[returned.patternName]) = 2
    /\ \E q \in LookedAt(returned.patternName) :
           scoreStructural(page[q], returned.patternName) = Dbl(2, 10)


(***************************************************************************)
(*                             ValueScanner                                *)
(* The document is a sequence of element nodes in document order.  A node  *)
(* records what the scanner reads from it: its path (getElementPath: the   *)
(* chain of tags and child indices from the root, one path per node), its  *)
(* tag, the number of its child nodes and of its child elements, its       *)
(* trimmed innerText and its value (each with its length; << >> when the   *)
(* node has no value property), and its computed display, position and     *)
(* box, and its aria-expanded attribute (<< >> when it has none).  The     *)
(* nodes have no checked or selected property, no overflow, and no other   *)
(* aria or data attributes; visibility is 'visible' and opacity is 1.      *)
(***************************************************************************)
\* this.snapshots.length > 10
SnapshotLimit == 10
\* text.length < 500
TextLimit == 500
\* How many snapshots are taken, how many times the page changes, and after
\* how many snapshots it has stopped changing.
MaxCaptures == 12
MaxEdits == 2
MaxChanging == 3
\* How many images the box holds at most.
MaxKids == 2

\* The documents: a fixed box that holds `kids` images, a paragraph with the
\* text `text`, and an input with the value `value`.  A path is the chain of
\* << tag, child index >> from the root.
Document(kids, text, value, display) ==
    LET str(chars, length) == [chars |-> chars, length |-> length]
        node(path, tag, childNodes, innerText, val, d, position, width, height) ==
            [ path |-> path, tag |-> tag, childNodes |-> childNodes,
              children |-> childNodes, innerText |-> innerText, value |-> val,
              display |-> d, position |-> position,
              width |-> width, height |-> height, ariaExpanded |-> << >> ]
        box == node(<< <<"DIV", 0>> >>, "DIV", kids, str("", 0), << >>, display, "fixed",
                    IF display = "none" THEN 0 ELSE 300,
                    IF display = "none" THEN 0 ELSE 200)
        img(i) == node(<< <<"DIV", 0>>, <<"IMG", i - 1>> >>, "IMG",
                       0, str("", 0), << >>, "inline", "static",
                       IF display = "none" THEN 0 ELSE 16,
                       IF display = "none" THEN 0 ELSE 16)
        p == node(<< <<"P", 1>> >>, "P", IF text.length = 0 THEN 0 ELSE 1, text, << >>,
                  "block", "static", 300, IF text.length = 0 THEN 0 ELSE 20)
        input == node(<< <<"INPUT", 2>> >>, "INPUT", 0, str("", 0), << value >>,
                      "inline-block", "static", 150, 20)
    IN  << box >> \o [i \in 1..kids |-> img(i)] \o << p, input >>

\* The documents of a page with a panel, a list of `kids` items, a trigger
\* with aria-expanded and two inputs: the panel's display and position, the
\* values of the inputs and the trigger's attribute vary.
Dialog(display, position, first, second, expanded, kids) ==
    LET str(chars) == [chars |-> chars, length |-> IF chars = "" THEN 0 ELSE 1]
        node(path, tag, children, val, d, pos, width, height, aria) ==
            [ path |-> path, tag |-> tag, childNodes |-> children,
              children |-> children, innerText |-> str(""), value |-> val,
              display |-> d, position |-> pos,
              width |-> width, height |-> height, ariaExpanded |-> aria ]
        panel == node(<< <<"DIV", 0>> >>, "DIV", 0, << >>, display, position,
                      IF display = "none" THEN 0 ELSE 300,
                      IF display = "none" THEN 0 ELSE 200, << >>)
        list == node(<< <<"UL", 1>> >>, "UL", kids, << >>, "block", "static",
                     300, 20 * kids, << >>)
        li(i) == node(<< <<"UL", 1>>, <<"LI", i - 1>> >>, "LI", 0, << >>,
                      "list-item", "static", 300, 20, << >>)
        trigger == node(<< <<"DIV", 2>> >>, "DIV", 0, << >>, "block", "static",
                        300, 20, << expanded >>)
        input(i, v) == node(<< <<"INPUT", 2 + i>> >>, "INPUT", 0, << str(v) >>,
                            "inline-block", "static", 150, 20, << >>)
    IN  << panel, list >> \o [i \in 1..kids |-> li(i)]
            \o << trigger, input(1, first), input(2, second) >>

\* extractValues(el): the keys in the order they are set, each with its value.
extractValues(el) ==
    LET text == IF el.childNodes <= 3 /\ el.innerText.length > 0
                   /\ el.innerText.length < TextLimit
                THEN << <<"text", el.innerText.chars>>,
                        <<"textLength", el.innerText.length>> >>
                ELSE << >>
        val == IF el.value # << >>
               THEN << <<"value", el.value[1].chars>>,
                       <<"valueLength", el.value[1].length>> >>
               ELSE << >>
        style == << <<"display", el.display>>, <<"visibility", "visible">>,
                    <<"opacity", 1>> >>
        rect == IF el.width > 0 \/ el.height > 0
                THEN << <<"width", el.width>>, <<"height", el.height>> >>
                ELSE << >>
        aria == IF el.ariaExpanded # << >>
                THEN << <<"aria-expanded", el.ariaExpanded[1]>> >>
                ELSE << >>
    IN  text \o val \o << <<"childCount", el.children>> >> \o style \o rect
            \o aria

\* A scanner that never shifts a snapshot out.
snapshotKeepAll(snaps) ==
    Append(snaps, [ capture |-> captures + 1,
                    elements |-> [i \in 1..Len(page) |->
                                     [ el |-> page[i].path, path |-> page[i].path,
                                       values |-> extractValues(page[i]),
                                       tag |-> page[i].tag,
                                       innerText |-> page[i].innerText ]] ])

\* snapshot(): every element is captured (childCount is always a key) under
\* its path, the snapshot is pushed, and the oldest one is shifted out when
\* there are more than ten.  An element stands as its path.  `capture`
\* numbers the snapshots in the order in which they are taken, and innerText
\* is the text the element had when it was captured; the scanner has neither.
snapshot(snaps) ==
    LET ring(pushed) == IF Len(pushed) > SnapshotLimit THEN Tail(pushed) ELSE pushed
    IN  ring(Append(snaps,
                    [ capture |-> captures + 1,
                      elements |-> [i \in 1..Len(page) |->
                                       [ el |-> page[i].path, path |-> page[i].path,
                                         values |-> extractValues(page[i]),
                                         tag |-> page[i].tag,
                                         innerText |-> page[i].innerText ]] ]))

\* A comparison that reports every key of the later record as changed.
diffValuesAll(before, after) ==
    [i \in 1..Len(after) |-> [ key |-> after[i][1], before |-> << >>,
                               after |-> << after[i][2] >>,
                               type |-> "value-changed" ]]

\* diffValues(before, after): one change for each key, of the keys of
\* `before` followed by the new keys of `after`, whose values differ (!==).
\* before and after of a change are << >> where the key is undefined.
diffValues(before, after) ==
    LET has(v, k) == \E i \in 1..Len(v) : v[i][1] = k
        get(v, k) == IF has(v, k)
                     THEN << v[CHOOSE i \in 1..Len(v) : v[i][1] = k][2] >>
                     ELSE << >>
        keys(v) == [i \in 1..Len(v) |-> v[i][1]]
        \* a comparison with undefined is false
        gt(a, b) == a # << >> /\ b # << >> /\ a[1] > b[1]
        categorizeChange(key, b, a) ==
            IF key = "childCount" /\ gt(a, b) THEN "children-added"
            ELSE IF key = "childCount" /\ gt(b, a) THEN "children-removed"
            ELSE IF key = "textLength" /\ gt(a, b) THEN "text-grew"
            ELSE IF key = "textLength" /\ gt(b, a) THEN "text-shrunk"
            ELSE IF key = "value" /\ a = << "" >> THEN "input-cleared"
            ELSE IF key = "value" /\ b = << "" >> THEN "input-filled"
            ELSE IF key = "scrollTop" THEN "scrolled"
            ELSE IF key = "display" /\ a # << "none" >> /\ b = << "none" >>
                 THEN "became-visible"
            ELSE IF key = "display" /\ a = << "none" >> THEN "became-hidden"
            ELSE IF key = "aria-expanded" THEN "aria-toggled"
            ELSE IF key = "checked" THEN "check-toggled"
            ELSE "value-changed"
        change(key, b, a) ==
            [ key |-> key, before |-> b, after |-> a,
              type |-> categorizeChange(key, b, a) ]
        changes(differing) ==
            [i \in 1..Len(differing) |->
                change(differing[i], get(before, differing[i]),
                       get(after, differing[i]))]
    IN  changes(SelectSeq(keys(before) \o
                              SelectSeq(keys(after), LAMBDA k : ~has(before, k)),
                          LAMBDA k : get(before, k) # get(after, k)))

\* diff(before, after)
diff(before, after) ==
    LET at(snap, q) == CHOOSE i \in 1..Len(snap.elements) : snap.elements[i].path = q
        inSnap(snap, q) == \E i \in 1..Len(snap.elements) : snap.elements[i].path = q
        pair(a, b) == [ path |-> a.path, el |-> a.el,
                        changes |-> diffValues(b.values, a.values),
                        before |-> b.values, after |-> a.values ]
        compare(both) ==
            [i \in 1..Len(both) |->
                pair(both[i], before.elements[at(before, both[i].path)])]
        \* typeof change.before === 'number' && typeof change.after === 'number'
        numbers == {"textLength", "valueLength", "childCount", "opacity",
                    "width", "height"}
        moves(c, up) == /\ c.key \in numbers
                        /\ c.before # << >> /\ c.after # << >>
                        /\ IF up THEN c.after[1] > c.before[1]
                                 ELSE c.after[1] < c.before[1]
        RECURSIVE moved(_, _, _, _)
        moved(compared, i, k, up) ==
            IF i > Len(compared) THEN << >>
            ELSE IF k > Len(compared[i].changes) THEN moved(compared, i + 1, 1, up)
            ELSE (IF moves(compared[i].changes[k], up)
                  THEN << [ path |-> compared[i].path, el |-> compared[i].el,
                            key |-> compared[i].changes[k].key,
                            before |-> compared[i].changes[k].before,
                            after |-> compared[i].changes[k].after,
                            type |-> compared[i].changes[k].type ] >>
                  ELSE << >>) \o moved(compared, i, k + 1, up)
        results(changed, same, fresh, gone, increased, decreased) ==
            [ kind |-> "diff",
              changed |-> changed,
              unchanged |-> [i \in 1..Len(same) |->
                                [path |-> same[i].path, el |-> same[i].el]],
              added |-> [i \in 1..Len(fresh) |->
                            [ path |-> fresh[i].path, el |-> fresh[i].el,
                              values |-> fresh[i].values ]],
              removed |-> [i \in 1..Len(gone) |->
                              [path |-> gone[i].path, values |-> gone[i].values]],
              increased |-> increased,
              decreased |-> decreased,
              summary |-> [ changed |-> Len(changed), added |-> Len(fresh),
                            removed |-> Len(gone), increased |-> Len(increased),
                            decreased |-> Len(decreased) ] ]
        sorted(compared) ==
            results(SelectSeq(compared, LAMBDA c : Len(c.changes) > 0),
                    SelectSeq(compared, LAMBDA c : Len(c.changes) = 0),
                    SelectSeq(after.elements, LAMBDA a : ~inSnap(before, a.path)),
                    SelectSeq(before.elements, LAMBDA b : ~inSnap(after, b.path)),
                    moved(compared, 1, 1, TRUE),
                    moved(compared, 1, 1, FALSE))
    IN  sorted(compare(SelectSeq(after.elements, LAMBDA a : inSnap(before, a.path))))

\* A detectPattern whose detectForm is content with one cleared input.
detectPatternOneInput(d) ==
    LET typed(t) == SelectSeq(d.changed, LAMBDA c :
                        \E k \in 1..Len(c.changes) : c.changes[k].type = t)
        val(v, k) == IF \E i \in 1..Len(v) : v[i][1] = k
                     THEN << v[CHOOSE i \in 1..Len(v) : v[i][1] = k][2] >>
                     ELSE << >>
        first(s) == IF Len(s) > 0 THEN s[1].el ELSE << >>
        inputCleared == typed("input-cleared")
        childrenAdded == typed("children-added")
        becameVisible == typed("became-visible")
        \* (change?.after || 0) - (change?.before || 0) for the key childCount
        grown(c) == LET n(x) == IF x = << >> THEN 0 ELSE x[1]
                    IN  n(val(c.after, "childCount")) - n(val(c.before, "childCount"))
        \* childrenAdded.sort(...)[0]: the first of those that grew most
        container == CHOOSE i \in 1..Len(childrenAdded) :
                         /\ \A j \in 1..Len(childrenAdded) :
                                grown(childrenAdded[i]) >= grown(childrenAdded[j])
                         /\ \A j \in 1..(i - 1) :
                                grown(childrenAdded[j]) < grown(childrenAdded[i])
        chat == IF Len(inputCleared) > 0 /\ Len(childrenAdded) > 0
                THEN << [ pattern |-> "chat", confidence |-> Dbl(95, 100),
                          components |-> [ container |-> childrenAdded[container].el,
                                           input |-> inputCleared[1].el ] ] >>
                ELSE << >>
        \* inputsCleared[0]?.el?.closest('form'): no element is inside a form
        form == IF Len(inputCleared) >= 1
                THEN << [ pattern |-> "form", confidence |-> Dbl(85, 100),
                          components |-> [ form |-> << >>,
                                           inputs |-> [i \in 1..Len(inputCleared) |->
                                                          inputCleared[i].el] ] ] >>
                ELSE << >>
        ariaToggled == SelectSeq(d.changed, LAMBDA c :
                           \E k \in 1..Len(c.changes) : c.changes[k].key = "aria-expanded")
        dropdown == IF Len(ariaToggled) > 0
                    THEN << [ pattern |-> "dropdown", confidence |-> Dbl(9, 10),
                              state |-> IF val(ariaToggled[1].after, "aria-expanded")
                                           = << "true" >> THEN "opened" ELSE "closed",
                              components |-> [ trigger |-> ariaToggled[1].el,
                                               menu |-> first(becameVisible) ] ] >>
                    ELSE << >>
        \* getComputedStyle(c.el).position === 'fixed', read from the page now
        fixedVisible == SelectSeq(d.changed, LAMBDA c :
                            /\ val(c.before, "display") = << "none" >>
                            /\ val(c.after, "display") # << "none" >>
                            /\ \E i \in 1..Len(page) :
                                   page[i].path = c.el /\ page[i].position = "fixed")
        modal == IF Len(fixedVisible) > 0
                 THEN << [ pattern |-> "modal", confidence |-> Dbl(85, 100),
                           state |-> "opened",
                           components |-> [ container |-> fixedVisible[1].el ] ] >>
                 ELSE << >>
    IN  chat \o form \o dropdown \o modal

\* detectPattern(diff): the detections of detectChat, detectForm,
\* detectDropdown and detectModal, in that order.  An element stands as its
\* path, and << >> is the element a detector did not find.
detectPattern(d) ==
    LET typed(t) == SelectSeq(d.changed, LAMBDA c :
                        \E k \in 1..Len(c.changes) : c.changes[k].type = t)
        val(v, k) == IF \E i \in 1..Len(v) : v[i][1] = k
                     THEN << v[CHOOSE i \in 1..Len(v) : v[i][1] = k][2] >>
                     ELSE << >>
        first(s) == IF Len(s) > 0 THEN s[1].el ELSE << >>
        inputCleared == typed("input-cleared")
        childrenAdded == typed("children-added")
        becameVisible == typed("became-visible")
        \* (change?.after || 0) - (change?.before || 0) for the key childCount
        grown(c) == LET n(x) == IF x = << >> THEN 0 ELSE x[1]
                    IN  n(val(c.after, "childCount")) - n(val(c.before, "childCount"))
        \* childrenAdded.sort(...)[0]: the first of those that grew most
        container == CHOOSE i \in 1..Len(childrenAdded) :
                         /\ \A j \in 1..Len(childrenAdded) :
                                grown(childrenAdded[i]) >= grown(childrenAdded[j])
                         /\ \A j \in 1..(i - 1) :
                                grown(childrenAdded[j]) < grown(childrenAdded[i])
        chat == IF Len(inputCleared) > 0 /\ Len(childrenAdded) > 0
                THEN << [ pattern |-> "chat", confidence |-> Dbl(95, 100),
                          components |-> [ container |-> childrenAdded[container].el,
                                           input |-> inputCleared[1].el ] ] >>
                ELSE << >>
        \* inputsCleared[0]?.el?.closest('form'): no element is inside a form
        form == IF Len(inputCleared) >= 2
                THEN << [ pattern |-> "form", confidence |-> Dbl(85, 100),
                          components |-> [ form |-> << >>,
                                           inputs |-> [i \in 1..Len(inputCleared) |->
                                                          inputCleared[i].el] ] ] >>
                ELSE << >>
        ariaToggled == SelectSeq(d.changed, LAMBDA c :
                           \E k \in 1..Len(c.changes) : c.changes[k].key = "aria-expanded")
        dropdown == IF Len(ariaToggled) > 0
                    THEN << [ pattern |-> "dropdown", confidence |-> Dbl(9, 10),
                              state |-> IF val(ariaToggled[1].after, "aria-expanded")
                                           = << "true" >> THEN "opened" ELSE "closed",
                              components |-> [ trigger |-> ariaToggled[1].el,
                                               menu |-> first(becameVisible) ] ] >>
                    ELSE << >>
        \* getComputedStyle(c.el).position === 'fixed', read from the page now
        fixedVisible == SelectSeq(d.changed, LAMBDA c :
                            /\ val(c.before, "display") = << "none" >>
                            /\ val(c.after, "display") # << "none" >>
                            /\ \E i \in 1..Len(page) :
                                   page[i].path = c.el /\ page[i].position = "fixed")
        modal == IF Len(fixedVisible) > 0
                 THEN << [ pattern |-> "modal", confidence |-> Dbl(85, 100),
                           state |-> "opened",
                           components |-> [ container |-> fixedVisible[1].el ] ] >>
                 ELSE << >>
    IN  chat \o form \o dropdown \o modal

\* ---- the scan operations ----
\* scanner.snapshot()
takeSnapshot ==
    /\ captures < MaxCaptures
    /\ snapshots' = snapshot(snapshots)
    /\ captures' = captures + 1
    /\ returned' = [ op |-> "snapshot", threw |-> FALSE,
                     result |-> snapshots'[Len(snapshots')] ]
    /\ UNCHANGED <<page, edits, detected, lastDiff>>
    /\ UNCHANGED cOthers

\* firstScan(): scanner.firstScan() empties the snapshots and takes one.
firstScan ==
    /\ captures < MaxCaptures
    /\ snapshots' = snapshot(<< >>)
    /\ captures' = captures + 1
    /\ returned' = [ op |-> "firstScan", threw |-> FALSE,
                     result |-> snapshots'[Len(snapshots')] ]
    /\ UNCHANGED <<page, edits, detected, lastDiff>>
    /\ UNCHANGED cOthers

\* nextScan(): scanner.nextScan() returns firstScan()'s snapshot when there
\* is no snapshot, and else the diff of the last snapshot and a new one; the
\* controller stores what it got in lastDiff and then reads
\* diff.summary.changed, a TypeError when summary is undefined.
nextScan ==
    /\ captures < MaxCaptures
    /\ captures' = captures + 1
    /\ IF snapshots = << >>
       THEN /\ snapshots' = snapshot(<< >>)
            /\ lastDiff' = [ kind |-> "snapshot",
                             capture |-> snapshots'[1].capture,
                             elements |-> snapshots'[1].elements ]
            /\ returned' = [ op |-> "nextScan", threw |-> TRUE ]
       ELSE /\ snapshots' = snapshot(snapshots)
            /\ lastDiff' = diff(snapshots[Len(snapshots)], snapshots'[Len(snapshots')])
            /\ returned' = [ op |-> "nextScan", threw |-> FALSE, result |-> lastDiff' ]
    /\ UNCHANGED <<page, edits, detected>>
    /\ UNCHANGED cOthers

\* autoDetect(): an empty list when lastDiff is null; else detectPattern of
\* lastDiff, whose first step diff.changed.filter is a TypeError when
\* lastDiff is a snapshot; each detection with a container is registered
\* under the container's path.
autoDetect ==
    /\ IF lastDiff.kind = "null"
       THEN /\ returned' = [ op |-> "autoDetect", threw |-> FALSE, result |-> << >> ]
            /\ UNCHANGED detected
       ELSE IF lastDiff.kind = "snapshot"
       THEN /\ returned' = [ op |-> "autoDetect", threw |-> TRUE ]
            /\ UNCHANGED detected
       ELSE LET last(held, q) == CHOOSE i \in 1..Len(held) :
                                     /\ held[i].components.container = q
                                     /\ \A j \in (i + 1)..Len(held) :
                                            held[j].components.container # q
                registered(held, paths) ==
                    [q \in DOMAIN detected \cup paths |->
                        IF q \in paths
                        THEN [ patternName |-> held[last(held, q)].pattern,
                               components |-> held[last(held, q)].components,
                               el |-> q ]
                        ELSE detected[q]]
                stored(held) ==
                    registered(held, { held[i].components.container :
                                           i \in 1..Len(held) })
                returns(found) ==
                    /\ detected' = stored(SelectSeq(found, LAMBDA f :
                                        "container" \in DOMAIN f.components
                                        /\ f.components.container # << >>))
                    /\ returned' = [ op |-> "autoDetect", threw |-> FALSE,
                                     result |-> found ]
            IN  returns(detectPattern(lastDiff))
    /\ UNCHANGED <<page, edits, snapshots, lastDiff, captures>>
    /\ UNCHANGED cOthers

\* The page changes the document: the box gains or loses an image, the
\* paragraph gets another text, the input another value, or the box is shown
\* or hidden.
mutate ==
    /\ edits < MaxEdits /\ captures < MaxChanging
    /\ edits' = edits + 1
    /\ LET str(chars, length) == [chars |-> chars, length |-> length]
           kids == page[1].children
           text == page[Len(page) - 1].innerText
           value == page[Len(page)].value[1]
           display == page[1].display
       IN  \/ \E k \in 0..MaxKids :
                  /\ k \in {kids - 1, kids + 1}
                  /\ page' = Document(k, text, value, display)
           \/ \E t \in { str("", 0), str("Hi", 2), str("Hi there", 8),
                         str("(a text of 500 characters)", TextLimit) } \ {text} :
                  page' = Document(kids, t, value, display)
           \/ \E v \in { str("", 0), str("hello", 5) } \ {value} :
                  page' = Document(kids, text, v, display)
           \/ \E d \in { "none", "block" } \ {display} :
                  page' = Document(kids, text, value, d)
    /\ UNCHANGED <<detected, snapshots, lastDiff, captures, returned>>
    /\ UNCHANGED cOthers

\* A new controller on a page that shows a short text and a filled input;
\* the box is hidden and empty.
ScanInit ==
    /\ VerifierIdle /\ PassiveIdle /\ LshIdle /\ ApiIdle
    /\ page = Document(0, [chars |-> "Hi", length |-> 2],
                       [chars |-> "hello", length |-> 5], "none")
    /\ edits = 0
    /\ detected = << >>
    /\ snapshots = << >>
    /\ lastDiff = [kind |-> "null"]
    /\ captures = 0
    /\ returned = [op |-> "none"]

ScanNext ==
    \/ takeSnapshot
    \/ firstScan
    \/ nextScan
    \/ autoDetect
    \/ mutate

ScanSpec == ScanInit /\ [][ScanNext]_vars

\* C16: diffing a snapshot against a snapshot with the same paths and the
\* same values for every path yields empty changed, added and removed lists,
\* empty increased and decreased lists, and summary counts that are all 0.
C16_IdenticalSnapshotsEmptyDiff ==
    LET n == Len(snapshots)
        valuesOf(snap) == { << snap.elements[i].path, snap.elements[i].values >> :
                                i \in 1..Len(snap.elements) }
    IN  ( /\ returned.op = "nextScan" /\ ~returned.threw
          /\ valuesOf(snapshots[n - 1]) = valuesOf(snapshots[n]) )
        => /\ returned.result.changed = << >>
           /\ returned.result.added = << >>
           /\ returned.result.removed = << >>
           /\ returned.result.increased = << >>
           /\ returned.result.decreased = << >>
           /\ returned.result.summary =
                  [ changed |-> 0, added |-> 0, removed |-> 0,
                    increased |-> 0, decreased |-> 0 ]

\* A nextScan() of a page that changed twice before the earlier of the two
\* snapshots it compared and not between them: every element is unchanged.
C16_Witness ==
    /\ returned.op = "nextScan" /\ ~returned.threw
    /\ edits = MaxEdits
    /\ Len(snapshots) >= 2
    /\ \A i \in 1..Len(page) :
           /\ snapshots[Len(snapshots) - 1].elements[i].values = extractValues(page[i])
           /\ snapshots[Len(snapshots)].elements[i].values = extractValues(page[i])
    /\ Len(snapshots[Len(snapshots) - 1].elements) = Len(page)
    /\ Len(returned.result.unchanged) = Len(page)

\* C17: for any node captured in both snapshots whose text is longer in the
\* later snapshot than in the earlier one, the diff contains exactly one
\* changed entry for the node's path, and that entry includes a change for
\* the key textLength classified 'text-grew'.
C17_TextGrewReported ==
    LET n == Len(snapshots)
        before == snapshots[n - 1].elements
        after == snapshots[n].elements
        changed == returned.result.changed
    IN  (returned.op = "nextScan" /\ ~returned.threw) =>
            \A a \in 1..Len(after) : \A b \in 1..Len(before) :
                ( /\ after[a].path = before[b].path
                  /\ after[a].innerText.length > before[b].innerText.length )
                => /\ Cardinality({k \in 1..Len(changed) :
                                      changed[k].path = after[a].path}) = 1
                   /\ \A k \in 1..Len(changed) :
                          changed[k].path = after[a].path =>
                              \E c \in 1..Len(changed[k].changes) :
                                  /\ changed[k].changes[c].key = "textLength"
                                  /\ changed[k].changes[c].type = "text-grew"

\* C18: after any sequence of snapshot(), firstScan() and nextScan() calls
\* the scanner retains at most 10 snapshots, and they are the most recently
\* captured ones in capture order (the oldest is evicted first); firstScan()
\* leaves exactly one retained snapshot.
C18_RingOfTen ==
    /\ Len(snapshots) <= 10
    /\ \A i \in 1..Len(snapshots) :
           snapshots[i].capture = captures - Len(snapshots) + i
    /\ returned.op = "firstScan" => Len(snapshots) = 1

\* Ten snapshots are retained after the oldest one was shifted out twice.
C18_Witness ==
    /\ Len(snapshots) = 10
    /\ snapshots[1].capture = 3
    /\ captures = 12
    /\ returned.op \in {"snapshot", "nextScan"}

\* C19: no sequence of the controller's scan operations throws: each call of
\* firstScan(), nextScan() and autoDetect(), in any order, completes and
\* returns a well-formed result: nextScan() a diff with a summary,
\* autoDetect() a list.
C19_ScanNeverThrows ==
    /\ returned.op \in {"firstScan", "nextScan", "autoDetect"} => ~returned.threw
    /\ (returned.op = "nextScan" /\ ~returned.threw) =>
           /\ returned.result.kind = "diff"
           /\ "summary" \in DOMAIN returned.result
    /\ (returned.op = "autoDetect" /\ ~returned.threw) =>
           DOMAIN returned.result = 1..Len(returned.result)

\* ---- detectPattern() on a page with a panel, a trigger and two inputs ----
\* How many times the page changes and how many snapshots are taken.
MaxRewrites == 2
MaxScans == 2

Dialogs ==
    { Dialog(d, pos, v[1], v[2], e, k) :
          d \in {"none", "block"}, pos \in {"fixed", "absolute", "static"},
          v \in { <<"a", "b">>, <<"", "b">>, <<"", "">> },
          e \in {"false", "true"}, k \in 1..2 }

\* The page changes into another of the documents.
rewrite ==
    /\ edits < MaxRewrites
    /\ edits' = edits + 1
    /\ page' \in Dialogs \ {page}
    /\ UNCHANGED <<detected, snapshots, lastDiff, captures, returned>>
    /\ UNCHANGED cOthers

\* A new controller on a page whose panel is hidden, whose inputs are filled
\* and whose trigger is collapsed.
MatchInit ==
    /\ VerifierIdle /\ PassiveIdle /\ LshIdle /\ ApiIdle
    /\ page \in { Dialog("none", pos, "a", "b", "false", 1) :
                      pos \in {"fixed", "absolute", "static"} }
    /\ edits = 0
    /\ detected = << >>
    /\ snapshots = << >>
    /\ lastDiff = [kind |-> "null"]
    /\ captures = 0
    /\ returned = [op |-> "none"]

MatchNext ==
    \/ captures < MaxScans /\ firstScan
    \/ captures < MaxScans /\ nextScan
    \/ autoDetect
    \/ rewrite

MatchSpec == MatchInit /\ [][MatchNext]_vars

\* The changed entries of the last diff that have a change of the type.
WithChange(type) ==
    { i \in 1..Len(lastDiff.changed) :
          \E k \in 1..Len(lastDiff.changed[i].changes) :
              lastDiff.changed[i].changes[k].type = type }

\* C33: detectPattern(diff) returns its matches in the order chat, form,
\* dropdown, modal: chat (0.95) exactly when some changed node has an
\* input-cleared change and some changed node a children-added change, form
\* (0.85) exactly when two or more changed nodes have an input-cleared
\* change, dropdown (0.9) exactly when some changed node has a change of
\* aria-expanded; each matcher decides by itself.
C33_MatchersIndependentInOrder ==
    (returned.op = "autoDetect" /\ ~returned.threw /\ lastDiff.kind = "diff") =>
        LET found == returned.result
            chat == WithChange("input-cleared") # {}
                    /\ WithChange("children-added") # {}
            form == Cardinality(WithChange("input-cleared")) >= 2
            dropdown == \E i \in 1..Len(lastDiff.changed) :
                            \E k \in 1..Len(lastDiff.changed[i].changes) :
                                lastDiff.changed[i].changes[k].key = "aria-expanded"
            named(match) == << match.pattern, match.confidence >>
            notModal == SelectSeq(found, LAMBDA match : match.pattern # "modal")
        IN  /\ [i \in 1..Len(notModal) |-> named(notModal[i])]
                   = (IF chat THEN << <<"chat", Dbl(95, 100)>> >> ELSE << >>)
                     \o (IF form THEN << <<"form", Dbl(85, 100)>> >> ELSE << >>)
                     \o (IF dropdown THEN << <<"dropdown", Dbl(9, 10)>> >> ELSE << >>)
            /\ \A i \in 1..Len(found) :
                   found[i].pattern = "modal" => i = Len(found)

\* A diff in which both inputs were cleared, the list grew, the trigger was
\* expanded and the fixed panel was shown: the four matches in order.
C33_Witness ==
    /\ returned.op = "autoDetect" /\ ~returned.threw /\ lastDiff.kind = "diff"
    /\ Len(returned.result) = 4
    /\ [i \in 1..4 |-> returned.result[i].pattern]
           = <<"chat", "form", "dropdown", "modal">>

\* C34: detectPattern(diff) returns a modal match with confidence 0.85 when
\* the diff has a changed node positioned fixed or absolute whose display
\* was 'none' before and is not 'none' after, and no modal match otherwise.
C34_ModalIffFixedOrAbsoluteShown ==
    (returned.op = "autoDetect" /\ ~returned.threw /\ lastDiff.kind = "diff") =>
        LET found == returned.result
            display(values) ==
                { values[k][2] : k \in { n \in 1..Len(values) :
                                             values[n][1] = "display" } }
            shown == { i \in 1..Len(lastDiff.changed) :
                           /\ display(lastDiff.changed[i].before) = {"none"}
                           /\ display(lastDiff.changed[i].after) # {"none"}
                           /\ \E q \in 1..Len(page) :
                                  /\ page[q].path = lastDiff.changed[i].path
                                  /\ page[q].position \in {"fixed", "absolute"} }
            modals == SelectSeq(found, LAMBDA match : match.pattern = "modal")
        IN  IF shown # {}
            THEN Len(modals) = 1 /\ modals[1].confidence = Dbl(85, 100)
            ELSE modals = << >>

\* The paths a list of a diff, or the elements of a snapshot, hold.
PathsOf(entries) == { entries[i].path : i \in 1..Len(entries) }

\* C32: diff(before, after) lists a path as added exactly when only `after`
\* has it, as removed exactly when only `before` has it, and as changed
\* exactly when both have it and some value key differs; every path of
\* `after` is in exactly one of added, changed and unchanged, and each count
\* of the summary is the length of its list.
C32_DiffPartitionsPaths ==
    (returned.op = "nextScan" /\ ~returned.threw) =>
        LET d == returned.result
            before == snapshots[Len(snapshots) - 1]
            after == snapshots[Len(snapshots)]
            valuesOf(snap, q) ==
                LET e == snap.elements[CHOOSE i \in 1..Len(snap.elements) :
                                           snap.elements[i].path = q]
                IN  { e.values[k] : k \in 1..Len(e.values) }
            times(list, q) == Cardinality({ i \in 1..Len(list) : list[i].path = q })
        IN  /\ \A q \in PathsOf(before.elements) \cup PathsOf(after.elements)
                       \cup PathsOf(d.added) \cup PathsOf(d.removed)
                       \cup PathsOf(d.changed) \cup PathsOf(d.unchanged) :
                   /\ q \in PathsOf(d.added) <=>
                          q \in PathsOf(after.elements) \ PathsOf(before.elements)
                   /\ q \in PathsOf(d.removed) <=>
                          q \in PathsOf(before.elements) \ PathsOf(after.elements)
                   /\ q \in PathsOf(d.changed) <=>
                          /\ q \in PathsOf(before.elements) \cap PathsOf(after.elements)
                          /\ valuesOf(before, q) # valuesOf(after, q)
            /\ \A q \in PathsOf(after.elements) :
                   times(d.added, q) + times(d.changed, q) + times(d.unchanged, q) = 1
            /\ d.summary = [ changed |-> Len(d.changed), added |-> Len(d.added),
                             removed |-> Len(d.removed),
                             increased |-> Len(d.increased),
                             decreased |-> Len(d.decreased) ]

\* A diff with an added path, the changed path of its parent, whose child
\* count (a number) increased, and an unchanged path.
C32_Witness ==
    /\ returned.op = "nextScan" /\ ~returned.threw
    /\ Len(returned.result.added) > 0
    /\ Len(returned.result.changed) > 0
    /\ Len(returned.result.unchanged) > 0
    /\ Len(returned.result.increased) > 0


(***************************************************************************)
(*                               chatSend                                  *)
(* The input is an element with a value (input, textarea) or a             *)
(* contenteditable; `value` is what input.value ?? input.textContent       *)
(* reads.  A change of a contenteditable's text is a mutation of its       *)
(* subtree; the value property of an input is not part of the DOM tree,    *)
(* and a page re-rendering the input also writes attributes or children.   *)
(***************************************************************************)
\* How many times the page or the user changes the input.
MaxInputEvents == 2

\* The values of the input and the messages sent; "hi " trims to "hi".
Values == {"", "hi", "hi ", "yo"}
Texts == {"hi", "yo"}
trim(v) == IF v = "hi " THEN "hi" ELSE v

\* val === text || val?.trim() === text.trim()
Propagated(v, text) == v = text \/ trim(v) = trim(text)

\* settle(): if (settled) return; settled = true; observer.disconnect();
\* clearTimeout(timer); checkAndSubmit(), which calls submitInput and
\* resolves the promise.
settle(s) ==
    IF s.settled THEN s
    ELSE [s EXCEPT !.settled = TRUE, !.observer = "disconnected", !.pending = FALSE,
                   !.timer = IF @ = "pending" THEN "cleared" ELSE @,
                   !.submits = @ + 1, !.pc = "resolved", !.result = "success"]

\* onInput, the input-event listener of one call, when the input holds v.
onInput(s, v) ==
    IF s.listener = "added" /\ Propagated(v, s.text)
    THEN settle([s EXCEPT !.listener = "removed"])
    ELSE s

\* An input event is dispatched on the input: every registered listener runs.
dispatchInput(ss, v) == [c \in SendIds |-> onInput(ss[c], v)]

\* The input's subtree or attributes were mutated: a record is queued for
\* every connected observer.
queueRecords(ss) ==
    [c \in SendIds |-> IF ss[c].observer = "connected"
                       THEN [ss[c] EXCEPT !.pending = TRUE] ELSE ss[c]]

\* chatSend(components, text): without an input it resolves with an error;
\* else setText(input, text) writes the text and dispatches an input event,
\* after which the input holds v (the page may have rewritten it); when v is
\* the text the message is submitted at once, and else an observer, an
\* input-event listener and a timer are set up.
chatSend(c, found, text, v) ==
    /\ sends[c].pc = "idle"
    /\ \A b \in SendIds : b < c => sends[b].pc # "idle"
    /\ IF ~found
       THEN /\ sends' = [sends EXCEPT ![c] =
                            [@ EXCEPT !.pc = "resolved", !.text = text,
                                      !.result = "No input found"]]
            /\ UNCHANGED inputEl
       ELSE /\ inputEl' = [inputEl EXCEPT !.value = v]
            /\ sends' =
                  [queueRecords(dispatchInput(sends, v)) EXCEPT ![c] =
                      IF Propagated(v, text)
                      THEN [IdleSend EXCEPT !.pc = "resolved", !.text = text,
                                            !.submits = 1, !.result = "success"]
                      ELSE [IdleSend EXCEPT !.pc = "waiting", !.text = text,
                                            !.observer = "connected",
                                            !.listener = "added",
                                            !.timer = "pending"]]
    /\ UNCHANGED <<boundAPIs, targets, probed, cvars, aOthers>>

\* The callback of a call's MutationObserver runs for the queued records.
observerCallback(c) ==
    /\ sends[c].observer = "connected" /\ sends[c].pending
    /\ sends' = [sends EXCEPT ![c] =
                     IF Propagated(inputEl.value, @.text)
                     THEN settle([@ EXCEPT !.pending = FALSE])
                     ELSE [@ EXCEPT !.pending = FALSE]]
    /\ UNCHANGED <<boundAPIs, inputEl, targets, probed, cvars, aOthers>>

\* The fallback timer of a call fires: the listener is removed, then settle().
timeout(c) ==
    /\ sends[c].timer = "pending"
    /\ sends' = [sends EXCEPT ![c] =
                     settle([@ EXCEPT !.timer = "fired", !.listener = "removed"])]
    /\ UNCHANGED <<boundAPIs, inputEl, targets, probed, cvars, aOthers>>

\* The user types, or the page's script sets the value and dispatches an
\* input event; in a contenteditable the text nodes change as well.
inputEvent(v) ==
    /\ inputEl.events < MaxInputEvents
    /\ inputEl' = [inputEl EXCEPT !.value = v, !.events = @ + 1]
    /\ sends' = IF inputEl.kind = "editable"
                THEN queueRecords(dispatchInput(sends, v))
                ELSE dispatchInput(sends, v)
    /\ UNCHANGED <<boundAPIs, targets, probed, cvars, aOthers>>

\* The page re-renders the input (attributes or children are written) so
\* that it holds v; no input event is dispatched.
render(v) ==
    /\ inputEl.events < MaxInputEvents
    /\ inputEl' = [inputEl EXCEPT !.value = v, !.events = @ + 1]
    /\ sends' = queueRecords(sends)
    /\ UNCHANGED <<boundAPIs, targets, probed, cvars, aOthers>>

\* A page with a text field or a contenteditable as its chat input.
SendInit ==
    /\ VerifierIdle /\ PassiveIdle /\ LshIdle /\ ControllerIdle
    /\ BindIdle /\ ProbeIdle
    /\ sends = [c \in SendIds |-> IdleSend]
    /\ inputEl \in { [kind |-> k, value |-> "", events |-> 0] :
                         k \in {"input", "editable"} }

SendNext ==
    \/ \E c \in SendIds, found \in BOOLEAN, text \in Texts, v \in Values :
          chatSend(c, found, text, v)
    \/ \E c \in SendIds : observerCallback(c)
    \/ \E c \in SendIds : timeout(c)
    \/ \E v \in Values : inputEvent(v)
    \/ \E v \in Values : render(v)

\* Every pending timer fires and every queued record is delivered.
SendSpec ==
    /\ SendInit /\ [][SendNext]_vars
    /\ \A c \in SendIds : WF_vars(timeout(c)) /\ WF_vars(observerCallback(c))

\* C35: every chatSend call on an existing input submits its message exactly
\* once, whatever the order in which the observer's callback, the input-event
\* listener and the fallback timer fire, and once the call has settled the
\* observer is disconnected, the timer is cleared (or has fired) and the
\* input-event listener is removed.
C35_SubmittedOnceLosersCancelled ==
    \A c \in SendIds :
        /\ sends[c].submits <= 1
        /\ sends[c].result = "success" =>
               /\ sends[c].submits = 1
               /\ sends[c].observer # "connected"
               /\ sends[c].timer # "pending"
               /\ sends[c].listener # "added"


(***************************************************************************)
(*                       bind() and the registry                           *)
(***************************************************************************)
\* The callback the constructor gives passive.onPattern, for an inference
\* { pattern, container } on the node at path q: the registry entry of the
\* container's path is overwritten.  An inference without a container
\* registers nothing.
onPattern(pattern, q) ==
    /\ q \in 0..Len(page)
    /\ detected' =
          IF q = 0 THEN detected
          ELSE [x \in DOMAIN detected \cup {q} |->
                   IF x = q
                   THEN [ patternName |-> pattern,
                          components |-> findComponents(page[q], pattern),
                          el |-> page[q],
                          source |-> "passive" ]
                   ELSE detected[x]]
    /\ returned' = [op |-> "onPattern", patternName |-> pattern, path |-> q]
    /\ UNCHANGED <<page, edits, snapshots, lastDiff, captures>>
    /\ UNCHANGED cOthers

\* unbind(patternName): the binding of the name, if any, is deleted.
unbind(pattern) ==
    /\ boundAPIs' = [x \in DOMAIN boundAPIs \ {pattern} |-> boundAPIs[x]]
    /\ returned' = [ op |-> "unbind", patternName |-> pattern,
                     result |-> pattern \in DOMAIN boundAPIs ]
    /\ UNCHANGED <<page, edits, detected, snapshots, lastDiff, captures>>
    /\ UNCHANGED <<sends, inputEl, targets, probed, aOthers>>

\* bind(patternName, path): null, and nothing else, when the registry has no
\* entry at the path; else the binding of the name is replaced by an api made
\* of the entry's components and element, and the api is returned.
bind(pattern, path) ==
    /\ IF path \notin DOMAIN detected
       THEN /\ returned' = [ op |-> "bind", patternName |-> pattern,
                             path |-> path, api |-> << >> ]
            /\ UNCHANGED boundAPIs
       ELSE LET api == [ pattern |-> pattern,
                         path |-> path,
                         el |-> detected[path].el,
                         components |-> detected[path].components ]
            IN  /\ boundAPIs' = [x \in DOMAIN boundAPIs \cup {pattern} |->
                                    IF x = pattern THEN api ELSE boundAPIs[x]]
                /\ returned' = [ op |-> "bind", patternName |-> pattern,
                                 path |-> path, api |-> <<api>> ]
    /\ UNCHANGED <<page, edits, detected, snapshots, lastDiff, captures>>
    /\ UNCHANGED <<sends, inputEl, targets, probed, aOthers>>

\* The paths bind() is called with: those of the document's nodes and one
\* that is no node's.
BindPaths == 1..3

BindNext ==
    \/ \E pattern \in {"chat", "feed"} :
           \E guarantee \in {"STRUCTURAL", "VERIFIED"} :
               detect(pattern, guarantee)
    \/ \E pattern \in {"chat", "modal"} : \E q \in 0..2 : onPattern(pattern, q)
    \/ \E pattern \in {"chat", "feed"} : \E path \in BindPaths :
           bind(pattern, path)
    \/ \E pattern \in {"chat", "feed"} : unbind(pattern)

BindSpec == DetectInit /\ [][BindNext]_vars

\* C38: bind(P, path) returns an api only if the registry entry at the path
\* has patternName P, whatever detect() calls and passive inferences wrote to
\* the path before; and bind() on a path without an entry returns null and
\* leaves every binding as it was.
C38_BoundFromEntryOfSamePattern ==
    [][ (returned'.op = "bind" /\ returned' # returned) =>
          /\ returned'.api # << >> =>
                 /\ returned'.path \in DOMAIN detected
                 /\ detected[returned'.path].patternName = returned'.patternName
          /\ returned'.path \notin DOMAIN detected =>
                 /\ returned'.api = << >>
                 /\ boundAPIs' = boundAPIs ]_vars


(***************************************************************************)
(*                             _probeInput                                 *)
(* The candidates are text fields (input, textarea), number fields (an     *)
(* input whose value sanitization turns a string that is no number into    *)
(* the empty string) and contenteditable elements without a value          *)
(* property; an element may be inert, aria-hidden or the controller's own. *)
(* The page has no handlers of its own on the input and change events.     *)
(***************************************************************************)
\* How many elements the candidates are taken from, and how often
\* findComponents() probes them.
MaxInputs == 3
MaxProbes == 2

\* const probeText: the zero-width space U+200B
probeText == "zwsp"

\* The elements a candidate can be, with the value (text content) it holds.
InputFields ==
    { f \in [ kind : {"text", "number", "editable"},
              value : {"", "draft", "7"},
              skipped : BOOLEAN ] : f.kind = "number" => f.value # "draft" }

\* setContentEditable(el, text): the content is selected and replaced.
setContentEditable(el, text) == [el EXCEPT !.value = text]

\* setText(input, text): a contenteditable goes to setContentEditable; else
\* every strategy assigns the value, which a number field sanitizes.
setText(el, text) ==
    CASE el.kind = "editable" -> setContentEditable(el, text)
      [] el.kind = "number" ->
             [el EXCEPT !.value = IF text \in {"", "7"} THEN text ELSE ""]
      [] OTHER -> [el EXCEPT !.value = text]

\* The loop of _probeInput from the i-th candidate on: a skipped element is
\* left alone; else the value is read, the probe text is set, the value is
\* read again, the element is cleaned up (a contenteditable is emptied by
\* selectAll and delete, another element gets setText(c, before || '')), and
\* the loop returns the element when the probe text had landed.
RECURSIVE ProbeFrom(_, _, _, _)
ProbeFrom(els, candidates, i, written) ==
    IF i > Len(candidates)
    THEN [els |-> els, written |-> written, input |-> << >>]
    ELSE LET c == candidates[i]
             isContentEditable == els[c].kind = "editable"
             before == els[c].value
             tried == setText(els[c], probeText)
             probeWorked == tried.value = probeText
             cleaned == IF isContentEditable
                        THEN [tried EXCEPT !.value = ""]
                        ELSE setText(tried, before)
             after == [els EXCEPT ![c] = cleaned]
         IN  IF els[c].skipped
             THEN ProbeFrom(els, candidates, i + 1, written)
             ELSE IF probeWorked
                  THEN [els |-> after, written |-> written \cup {c},
                        input |-> <<c>>]
                  ELSE ProbeFrom(after, candidates, i + 1, written \cup {c})

\* _probeInput(candidates), as findComponents() calls it for a chat.
_probeInput ==
    /\ probed.calls < MaxProbes
    /\ LET done == ProbeFrom(targets.els, targets.candidates, 1, {})
       IN  /\ targets' = [targets EXCEPT !.els = done.els]
           /\ probed' = [ op |-> "_probeInput", calls |-> probed.calls + 1,
                          before |-> targets.els, written |-> done.written,
                          input |-> done.input ]
    /\ UNCHANGED <<boundAPIs, sends, inputEl, cvars, aOthers>>

\* The user edits an element between two detections.
edit(c, v) ==
    /\ probed.calls = 1
    /\ c \in DOMAIN targets.els
    /\ [targets.els[c] EXCEPT !.value = v] \in InputFields
    /\ targets.els[c].value # v
    /\ targets' = [targets EXCEPT !.els[c].value = v]
    /\ probed' = [op |-> "edit", calls |-> probed.calls]
    /\ UNCHANGED <<boundAPIs, sends, inputEl, cvars, aOthers>>

\* A page with up to MaxInputs elements; the candidates are its elements
\* in document order, the first one possibly matched by the document-wide
\* selectors as well.
ProbeInit ==
    /\ VerifierIdle /\ PassiveIdle /\ LshIdle /\ ControllerIdle
    /\ BindIdle /\ SendIdle
    /\ \E n \in 1..MaxInputs :
          /\ targets \in
                [ els : [1..n -> InputFields],
                  candidates : { [i \in 1..n |-> i],
                                 [i \in 1..(n + 1) |-> IF i > n THEN 1 ELSE i] } ]
    /\ probed = [op |-> "none", calls |-> 0]

ProbeNext ==
    \/ _probeInput
    \/ \E c \in 1..MaxInputs, v \in {"", "draft", "7"} : edit(c, v)

ProbeSpec == ProbeInit /\ [][ProbeNext]_vars

\* C39: after _probeInput returns, every candidate it wrote the probe text
\* to holds the value (for a contenteditable, the text content) it held
\* before the probe.
C39_ProbeRestoresInputs ==
    probed.op = "_probeInput" =>
        \A c \in probed.written :
            targets.els[c].value = probed.before[c].value


(***************************************************************************)
(*                    The panel's Verify button                            *)
(* A chat is bound; its input is a text field that takes the text setText  *)
(* assigns at once, so that chatSend submits the message before it         *)
(* returns.  The chat answers a submitted message by clearing the input,   *)
(* adding a child to the container and scrolling it, in any order, and     *)
(* before the clock advances.                                              *)
(***************************************************************************)
\* The api of the bound chat.
BoundChat ==
    [ pattern |-> "chat", path |-> 1, el |-> 1,
      components |-> [container |-> 1, input |-> "INPUT"] ]

\* The calls of verify() that have not returned.
InProgress == { c \in CallIds : calls[c].pc \in {"exec", "waiting", "resolved"} }

\* The click handler of #btn-verify up to its await: a new verifier for the
\* first bound pattern, and verify('send', () => api.send(text)) up to the
\* await of the promise api.send returns: the preconditions are checked and
\* the state is captured, and then the action function runs, where setText
\* writes the text to the input and the message is submitted.
btnVerify(c) ==
    /\ calls[c].pc = "idle"
    /\ \A b \in CallIds : b < c => calls[b].pc = "returned"
    /\ "chat" \in DOMAIN boundAPIs /\ patternName = "chat"
    /\ currentGuarantee' = "STRUCTURAL"
    /\ traces' = << >>
    /\ calls' = [calls EXCEPT ![c] =
          [@ EXCEPT !.action = "send",
                    !.results = PreResults(ActionOf(patternName, "send"), dom),
                    !.initialState = _captureState(dom),
                    !.invoked = @ + 1,
                    !.pc = "exec", !.fn = "resolve"]]
    /\ dom' = [dom EXCEPT !.inputValue = "hi"]
    /\ UNCHANGED <<patternName, vOthers>>

\* The chat answers the message that was submitted.
reacts(f) ==
    /\ \E c \in InProgress :
          CASE f = "inputValue" ->
                   /\ dom.inputValue # ""
                   /\ dom' = [dom EXCEPT !.inputValue = ""]
            [] f = "childCount" ->
                   /\ dom.childCount = calls[c].initialState.containerChildCount
                   /\ dom' = [dom EXCEPT !.childCount = @ + 1]
            [] f = "scrollTop" ->
                   /\ dom.scrollTop = calls[c].initialState.containerScrollTop
                   /\ dom' = [dom EXCEPT !.scrollTop = @ + 120]
    /\ UNCHANGED <<patternName, currentGuarantee, traces, calls, vOthers>>

\* The chat has cleared the input, added a child and scrolled.
Reacted ==
    \A c \in InProgress :
        /\ dom.inputValue = ""
        /\ dom.childCount > calls[c].initialState.containerChildCount
        /\ dom.scrollTop > calls[c].initialState.containerScrollTop

\* Time passes only when the chat has answered.
PanelTick == Reacted /\ Tick

\* The user types into the input while no verification runs.
compose ==
    /\ InProgress = {}
    /\ DomChange("inputValue", "hi")

\* A page with a bound chat, with or without text in its input.
PanelInit ==
    /\ PassiveIdle /\ LshIdle /\ ControllerIdle /\ SendIdle /\ ProbeIdle
    /\ boundAPIs = [x \in {"chat"} |-> BoundChat]
    /\ patternName = "chat"
    /\ currentGuarantee = "STRUCTURAL"
    /\ traces = << >>
    /\ dom \in DomStates("chat")
    /\ calls = [c \in CallIds |-> IdleCall]

PanelNext ==
    \/ \E c \in CallIds : btnVerify(c)
    \/ \E f \in DomFields("chat") : reacts(f)
    \/ \E c \in CallIds : actionSettled(c)
    \/ \E c \in CallIds : poll(c)
    \/ \E c \in CallIds : resume(c)
    \/ PanelTick
    \/ compose

PanelSpec == PanelInit /\ [][PanelNext]_vars

\* C40: for a bound chat that clears the input, adds a child and scrolls
\* within the timeouts, the panel's verify('send', () => api.send(text))
\* returns passed = true with the guarantee VERIFIED, whether or not the input
\* held text before verify() was called.
C40_PanelVerifyPasses ==
    \A c \in CallIds :
        calls[c].pc = "returned" =>
            /\ calls[c].ret.passed
            /\ calls[c].ret.guarantee = "VERIFIED"

=============================================================================
